---- MODULE Spec2Model ----
(***************************************************************************)
(* A model of the pdf-to-audiobook pipeline: chapter detection             *)
(* (src/app/api/chapters/route.ts) and byte-bounded chunking               *)
(* (src/app/api/render-chapter/route.ts and its earlier plain-text         *)
(* version).                                                               *)
(*                                                                         *)
(* Strings of the detection code are modelled as sequences of tokens (the  *)
(* whitespace-separated words of the string, joined by single spaces, as   *)
(* the extractor's whitespace collapsing leaves them).  A page text is the *)
(* sequence of its non-empty lines (what text.split(/\n+/) yields).        *)
(***************************************************************************)
EXTENDS Integers, Sequences, FiniteSets, TLC

VARIABLES
    pc,                 \* detectChapters: position in the handler
    step,               \* detectChapters: the handler's own `step` variable
    doc,                \* detectChapters: { numPages, pages } of the extractor
    headingCandidates,  \* detectChapters: accepted HeadingCandidate list
    toc,                \* detectChapters: result of detectTocEntries (or NoToc)
    tocStarts,          \* detectChapters: projected TOC starts
    useToc,             \* detectChapters: tocStarts.length >= 2
    sourceStarts,       \* detectChapters: the starts given to toChaptersFromStarts
    chapters,           \* detectChapters: the chapter list
    confidence,         \* detectChapters: reported confidence, in hundredths (0 before it is computed)
    cpc,                \* chunker call: "idle", "ready", "done" or "thrown"
    callText,           \* chunker call: the text argument
    callMaxBytes,       \* chunker call: the byte budget argument
    chunks,             \* chunker call: the returned chunks
    spc,                \* splitToByteSafeParts: position in the function
    sentences,          \* splitToByteSafeParts: sentences still to process
    words,              \* splitToByteSafeParts: words of the sentence still to process
    token,              \* splitToByteSafeParts: what is left of an over-long word
    sliceLen,           \* splitToByteSafeParts: candidate slice length
    cur,                \* splitToByteSafeParts: the part being filled
    out,                \* splitToByteSafeParts: the parts pushed so far
    dpc,                \* inferDocType call: "idle", "ready" or "done"
    dtPages,            \* inferDocType call: the pages argument
    dtTocPage,          \* inferDocType call: options.tocPageNumber (0 for null)
    docTypeInfo,        \* inferDocType call: the returned { docType, scores }
    rpc,                \* render POST: position in the handler
    inputsOk,           \* render POST: pdfUrl and the page numbers of the body are valid
    extractedUrl,       \* render POST: what body.extractedUrl leads to
    renderPages,        \* render POST: where `pages` comes from: "null", "cached" or "extracted"
    ssmlChunks,         \* render POST: the chunks of chunkTextToSsml, by number
    chunkIdx,           \* render POST: number of the chunk in the for loop
    tryIdx,             \* synthesizeWithRetry: i
    lastErr,            \* synthesizeWithRetry: lastErr (0 for null, else the attempt that failed)
    mp3Parts,           \* render POST: the audio buffers pushed so far
    events,             \* render POST: synthesis calls, their returns and the waits, in order
    blobs,              \* render POST: the objects put into the store
    response,           \* render POST: 0 while running, else the HTTP status returned
    errorBody,          \* render POST: the JSON body of an error response
    reqs,               \* concurrent requests: the state of each detection or render request
    now,                \* concurrent requests: what Date.now() returns
    store,              \* concurrent requests: the objects of the blob store
    writes,             \* concurrent requests: the completed puts, in order
    npc,                \* cleanTextForAudio: "idle", "ready", "once" or "twice"
    raw,                \* cleanTextForAudio: the text given to the first pass
    cleaned,            \* cleanTextForAudio: the result of the first pass
    recleaned,          \* cleanTextForAudio: the result of a pass over `cleaned`
    epc,                \* extractPagesFromPdfBuffer: "idle", "ready" or "done"
    rawPages,           \* extractPagesFromPdfBuffer: result.pages of the parser
    extracted,          \* extractPagesFromPdfBuffer: the returned { numPages, pages }
    isUploading,        \* client page: isUploading
    isDetecting,        \* client page: isDetecting
    pdfUrl,             \* client page: the document of pdfUrl (0 for null)
    loadedChapters,     \* client page: the document whose chapters are in `chapters` (0 for null)
    chapterDownloads,   \* client page: per chapter index, the download URL recorded (or NoUrl)
    chapterStatus,      \* client page: per chapter index, the recorded status
    generatingByChapter, \* client page: per chapter index, the generating flag
    generatingAll,      \* client page: generatingAll.active
    allRuns,            \* client page: the running generateAllChapters calls and what each captured
    inflight,           \* client page: the /api/render-chapter requests in flight
    loading,            \* client page: the upload or detection request in flight
    uploads,            \* client page: number of uploads started
    renders             \* client page: number of render requests issued

detectVars ==
    <<pc, step, doc, headingCandidates, toc, tocStarts, useToc, sourceStarts, chapters, confidence>>

chunkVars == <<cpc, callText, callMaxBytes, chunks>>

splitVars == <<spc, sentences, words, token, sliceLen, cur, out>>

docTypeVars == <<dpc, dtPages, dtTocPage, docTypeInfo>>

\* the variables of the calls modelled after the chunkers
renderVars ==
    <<rpc, inputsOk, extractedUrl, renderPages, ssmlChunks, chunkIdx, tryIdx, lastErr, mp3Parts,
      events, blobs, response, errorBody>>

storeVars == <<reqs, now, store, writes>>

cleanVars == <<npc, raw, cleaned, recleaned>>

extractVars == <<epc, rawPages, extracted>>

pageVars ==
    <<isUploading, isDetecting, pdfUrl, loadedChapters, chapterDownloads, chapterStatus,
      generatingByChapter, generatingAll, allRuns, inflight, loading, uploads, renders>>

restVars == <<docTypeVars, renderVars, storeVars, cleanVars, extractVars, pageVars>>

vars == <<detectVars, chunkVars, splitVars, restVars>>

-----------------------------------------------------------------------------
(* Generic helpers *)

Min(a, b) == IF a < b THEN a ELSE b
Max(a, b) == IF a > b THEN a ELSE b

RECURSIVE SumSeq(_)
SumSeq(s) == IF s = <<>> THEN 0 ELSE Head(s) + SumSeq(Tail(s))

RECURSIVE Flatten(_)
Flatten(ss) == IF ss = <<>> THEN <<>> ELSE Head(ss) \o Flatten(Tail(ss))

Range(s) == {s[i] : i \in 1..Len(s)}

-----------------------------------------------------------------------------
(* Tokens: the words the model's page texts are made of, with the          *)
(* character-level facts the code's regular expressions look at.           *)

NumTokens    == {"0", "1", "2", "3", "4", "5", "10", "12", "12345"}
LeaderToken  == ".........."
RomanTokens  == {"II"}
CapsTokens   == {"OVERVIEW", "TABLE", "OF", "CONTENTS", "II"}

NumVal(t) ==
    CASE t = "0" -> 0 [] t = "1" -> 1 [] t = "2" -> 2 [] t = "3" -> 3
      [] t = "4" -> 4 [] t = "5" -> 5 [] t = "10" -> 10 [] t = "12" -> 12
      [] t = "12345" -> 12345

IsNum(t)    == t \in NumTokens
IsLeader(t) == t = LeaderToken
IsWordTok(t) == ~IsNum(t) /\ ~IsLeader(t)

\* s.toLowerCase() of one token
Lower(t) ==
    CASE t = "Chapter" -> "chapter" [] t = "OVERVIEW" -> "overview"
      [] t = "Introduction" -> "introduction" [] t = "Methods" -> "methods"
      [] t = "Results" -> "results" [] t = "Alpha" -> "alpha"
      [] t = "Beta" -> "beta" [] t = "Gamma" -> "gamma"
      [] t = "TABLE" -> "table" [] t = "OF" -> "of" [] t = "CONTENTS" -> "contents"
      [] t = "Page" -> "page" [] t = "II" -> "ii"
      [] OTHER -> t

\* number of [a-z] letters (case-insensitive) of a token
Letters(t) == IF IsWordTok(t) THEN Len(t) ELSE 0

\* line.length of a string of tokens joined by single spaces
Chars(s) == IF s = <<>> THEN 0 ELSE SumSeq([i \in 1..Len(s) |-> Len(s[i])]) + (Len(s) - 1)

LettersOf(s) == SumSeq([i \in 1..Len(s) |-> Letters(s[i])])

\* the first n whitespace-separated words of a string
FirstWords(s, n) == SubSeq(s, 1, Min(n, Len(s)))


IsRomanTok(t) == t \in RomanTokens
\* line === line.toUpperCase() for one token
IsUpperTok(t) == t \in CapsTokens \/ IsNum(t) \/ IsLeader(t)
HasCapital(t) == t \in CapsTokens \/ t \in {"Chapter", "Introduction", "Methods", "Results", "Alpha", "Beta", "Gamma", "Page"}

-----------------------------------------------------------------------------
(* chapters/route.ts: line helpers *)

NoMeta == [none |-> TRUE]

\* textToLines: the non-empty lines when there are several, else the words in
\* groups of 8.
RECURSIVE GroupsOf8(_)
GroupsOf8(ws) ==
    IF ws = <<>> THEN <<>>
    ELSE <<SubSeq(ws, 1, Min(8, Len(ws)))>> \o GroupsOf8(SubSeq(ws, Min(8, Len(ws)) + 1, Len(ws)))

textToLines(text) ==
    IF Len(text) > 1 THEN text ELSE GroupsOf8(Flatten(text))

layoutLinesForPage(page) ==
    IF Len(page.lines) > 0 THEN page.lines
    ELSE [i \in 1..Len(textToLines(page.text)) |->
            [text |-> textToLines(page.text)[i], fontSize |-> 0, indent |-> 0]]

LayoutTexts(page) == [i \in 1..Len(layoutLinesForPage(page)) |-> layoutLinesForPage(page)[i].text]

\* normalizeLine: lower case, single spaces, only [\\w\\s.:/-] kept.  The tokens of
\* the model hold letters, digits and dots only, so every token keeps all its
\* characters.
normalizeLine(s) == [i \in 1..Len(s) |-> Lower(s[i])]

\* buildCommonLineSet: counts every occurrence of a normalized line (length >= 4)
\* over all pages; common when the count reaches max(3, floor(pages * 0.25)).
AllLayoutTexts(pages) == Flatten([i \in 1..Len(pages) |-> LayoutTexts(pages[i])])

CountOf(n, lineSeq) == Cardinality({i \in 1..Len(lineSeq) : normalizeLine(lineSeq[i]) = n})

buildCommonLineSet(pages) ==
    LET all == AllLayoutTexts(pages)
        threshold == Max(3, Len(pages) \div 4)
    IN  {n \in {normalizeLine(all[i]) : i \in 1..Len(all)} :
            /\ Chars(n) >= 4
            /\ CountOf(n, all) >= threshold}

IsDigitsLine(s) == Len(s) = 1 /\ IsNum(s[1])
IsPageNLine(s)  == Len(s) = 2 /\ Lower(s[1]) = "page" /\ IsNum(s[2])

KeepLine(s, common) ==
    /\ s # <<>>
    /\ ~IsDigitsLine(s)
    /\ ~IsPageNLine(s)
    /\ normalizeLine(s) \notin common

RECURSIVE suppressLikelyHeaderFooter(_, _)
suppressLikelyHeaderFooter(lineSeq, common) ==
    IF lineSeq = <<>> THEN <<>>
    ELSE (IF KeepLine(Head(lineSeq), common) THEN <<Head(lineSeq)>> ELSE <<>>)
            \o suppressLikelyHeaderFooter(Tail(lineSeq), common)

\* cleanTitle: single spaces, trimmed, at most 120 characters, "Chapter" when
\* empty.  A cut falls between tokens here (whole tokens are kept while they fit).
TitleMaxChars == 120

RECURSIVE Slice120(_)
Slice120(s) == IF Chars(s) <= TitleMaxChars THEN s ELSE Slice120(SubSeq(s, 1, Len(s) - 1))

cleanTitle(s) == IF Slice120(s) = <<>> THEN <<"Chapter">> ELSE Slice120(s)

looksLikeHeadingLegacy(s) ==
    /\ s # <<>>
    /\ \/ (Len(s) >= 2 /\ Lower(s[1]) = "chapter" /\ IsNum(s[2]))
       \/ (Len(s) >= 2 /\ IsNum(s[1]))
       \/ (/\ Chars(s) <= 60
           /\ \A i \in 1..Len(s) : IsUpperTok(s[i])
           /\ \E i \in 1..Len(s) : HasCapital(s[i]) /\ s[i] \in CapsTokens)

-----------------------------------------------------------------------------
(* chapters/route.ts: scoreHeadingCandidate *)

ReChapterNum(s)   == Len(s) >= 2 /\ Lower(s[1]) = "chapter" /\ IsNum(s[2])
ReChapterRoman(s) == Len(s) >= 2 /\ Lower(s[1]) = "chapter" /\ IsRomanTok(s[2])
ReRomanDot(s)     == FALSE   \* no token of the model is a roman numeral followed by a dot
ReNumbered(s)     == Len(s) >= 2 /\ IsNum(s[1])
RePart(s)         == Len(s) >= 2 /\ Lower(s[1]) = "part" /\ (IsNum(s[2]) \/ IsRomanTok(s[2]))
ReTableOfContents(s) ==
    \E i \in 1..(Len(s) - 2) :
        Lower(s[i]) = "table" /\ Lower(s[i + 1]) = "of" /\ Lower(s[i + 2]) = "contents"
RePureNumber(s) ==
    /\ Cardinality({i \in 1..Len(s) : IsNum(s[i])}) = 1
    /\ \A i \in 1..Len(s) : IsNum(s[i]) \/ IsLeader(s[i])
ReCopyright(s) == Lower(s[1]) = "copyright"

FontBonus(meta, pageMaxFont) ==
    IF meta # NoMeta /\ meta.fontSize # 0 /\ pageMaxFont # 0
    THEN IF meta.fontSize * 100 >= 92 * pageMaxFont THEN 24
         ELSE IF meta.fontSize * 100 >= 86 * pageMaxFont THEN 12 ELSE 0
    ELSE 0

scoreHeadingCandidate(candidate, common, meta, pageMaxFont) ==
    IF candidate = <<>> THEN -999
    ELSE  (IF ReChapterNum(candidate) THEN 95 ELSE 0)
        + (IF ReChapterRoman(candidate) THEN 90 ELSE 0)
        + (IF ReRomanDot(candidate) THEN 58 ELSE 0)
        + (IF ReNumbered(candidate) THEN 62 ELSE 0)
        + (IF RePart(candidate) THEN 55 ELSE 0)
        + (IF ReTableOfContents(candidate) THEN 20 ELSE 0)
        + (IF Chars(candidate) <= 80 /\ LettersOf(candidate) * 100 > 55 * Chars(candidate) THEN 18 ELSE 0)
        - (IF Chars(candidate) > 120 THEN 18 ELSE 0)
        - (IF RePureNumber(candidate) THEN 90 ELSE 0)
        - (IF normalizeLine(candidate) \in common THEN 45 ELSE 0)
        - (IF ReCopyright(candidate) THEN 40 ELSE 0)
        + FontBonus(meta, pageMaxFont)
        - (IF meta # NoMeta /\ meta.indent > 30 THEN 8 ELSE 0)

-----------------------------------------------------------------------------
(* chapters/route.ts: detectChapters, step "detect-headings" *)

\* the candidate spans of a page, in the order the loop pushes them: for each kept
\* line i its own text, then layout[i] joined with layout[i + 1]
RECURSIVE SpansFrom(_, _, _)
SpansFrom(i, lineSeq, layout) ==
    IF i > Len(lineSeq) THEN <<>>
    ELSE <<[text |-> lineSeq[i], meta |-> layout[i]]>>
         \o (IF i + 1 <= Len(layout)
             THEN <<[text |-> layout[i].text \o layout[i + 1].text, meta |-> layout[i]]>>
             ELSE <<>>)
         \o SpansFrom(i + 1, lineSeq, layout)

KeptLines(page, common) ==
    LET kept == suppressLikelyHeaderFooter(LayoutTexts(page), common)
    IN  SubSeq(kept, 1, Min(12, Len(kept)))

PageSpans(page, common) == SpansFrom(1, KeptLines(page, common), layoutLinesForPage(page))

SpanScore(c, page, common) == scoreHeadingCandidate(c.text, common, c.meta, page.maxFontSize)

\* variant: the first span of the page is taken as the best
FirstSpanIndex(page, common) == IF PageSpans(page, common) = <<>> THEN 0 ELSE 1

\* the first span with the highest score (best is replaced only by a strictly
\* higher score); 0 when the page has no span
BestSpanIndex(page, common) ==
    LET spans == PageSpans(page, common)
    IN  IF spans = <<>> THEN 0
        ELSE CHOOSE i \in 1..Len(spans) :
                /\ \A j \in 1..Len(spans) : SpanScore(spans[j], page, common) <= SpanScore(spans[i], page, common)
                /\ \A j \in 1..(i - 1) : SpanScore(spans[j], page, common) < SpanScore(spans[i], page, common)

AcceptScore == 60

PageCandidate(page, common) ==
    LET spans == PageSpans(page, common)
        b == BestSpanIndex(page, common)
    IN  IF b # 0 /\ SpanScore(spans[b], page, common) >= AcceptScore
        THEN <<[page |-> page.pageNumber, title |-> cleanTitle(spans[b].text),
                score |-> SpanScore(spans[b], page, common)]>>
        ELSE <<>>

DetectHeadingCandidates(pages) ==
    LET common == buildCommonLineSet(pages)
    IN  Flatten([i \in 1..Len(pages) |-> PageCandidate(pages[i], common)])

-----------------------------------------------------------------------------
(* chapters/route.ts: detectTocEntries and inferTocOffset *)

NoToc == [tocPage |-> 0, entries |-> <<>>]

HasContentsMarker(lineSeq) ==
    \E i \in 1..Len(lineSeq) : \E j \in 1..Len(lineSeq[i]) : Lower(lineSeq[i][j]) = "contents"

\* /\\b\\d{1,4}\\s*$/ : the line ends in a run of 1 to 4 digits
EndsInPageRef(s) == s # <<>> /\ IsNum(s[Len(s)]) /\ Len(s[Len(s)]) <= 4

TrailingRefCount(lineSeq) == Cardinality({i \in 1..Len(lineSeq) : EndsInPageRef(lineSeq[i])})

\* trailingRefDensity < 0.18
DensityTooLow(lineSeq) == TrailingRefCount(lineSeq) * 100 < 18 * Max(1, Len(lineSeq))

\* the two patterns of a TOC line: title, dot leader, digits; or title ending in
\* a non-digit, whitespace, digits.  <<>> when neither matches or the page is < 1.
\* variant: the dot leader is left in the captured title
ParseTocLineKeepLeader(s) ==
    IF ~(Len(s) >= 2 /\ EndsInPageRef(s)) THEN <<>>
    ELSE LET n == Len(s)
         IN  IF IsNum(s[n - 1]) \/ NumVal(s[n]) < 1 THEN <<>>
             ELSE <<[title |-> cleanTitle(SubSeq(s, 1, n - 1)), page |-> NumVal(s[n])]>>

ParseTocLine(s) ==
    IF ~(Len(s) >= 2 /\ EndsInPageRef(s)) THEN <<>>
    ELSE LET n == Len(s)
             title == IF IsLeader(s[n - 1])
                      THEN (IF n = 2 THEN <<".">> ELSE SubSeq(s, 1, n - 2))
                      ELSE SubSeq(s, 1, n - 1)
         IN  IF IsNum(s[n - 1]) \/ NumVal(s[n]) < 1 THEN <<>>
             ELSE <<[title |-> cleanTitle(title), page |-> NumVal(s[n])]>>

ParseTocLines(lineSeq) == Flatten([i \in 1..Len(lineSeq) |-> ParseTocLine(lineSeq[i])])

TocScanPages == 8
TocMaxLines  == 80
TocMinEntries == 3

TocLinesOf(page) == SubSeq(textToLines(page.text), 1, Min(TocMaxLines, Len(textToLines(page.text))))

IsTocPage(page) ==
    /\ TocLinesOf(page) # <<>>
    /\ HasContentsMarker(TocLinesOf(page))
    /\ ~DensityTooLow(TocLinesOf(page))
    /\ Len(ParseTocLines(TocLinesOf(page))) >= TocMinEntries

detectTocEntries(pages) ==
    LET early == SubSeq(pages, 1, Min(TocScanPages, Len(pages)))
        hits == {i \in 1..Len(early) : IsTocPage(early[i])}
    IN  IF hits = {} THEN NoToc
        ELSE LET first == CHOOSE i \in hits : \A j \in hits : i <= j
             IN  [tocPage |-> early[first].pageNumber,
                  entries |-> ParseTocLines(TocLinesOf(early[first]))]

\* a.includes(b) on normalized strings, token-wise
Includes(a, b) == \E k \in 0..(Len(a) - Len(b)) : SubSeq(a, k + 1, k + Len(b)) = b

\* the (tocEntry, headingCandidate) pairs in loop order, as deltas
RECURSIVE DeltaList(_, _, _, _)
DeltaList(i, j, entries, cands) ==
    IF i > Len(entries) THEN <<>>
    ELSE IF j > Len(cands) THEN DeltaList(i + 1, 1, entries, cands)
    ELSE LET normToc == normalizeLine(entries[i].title)
             normHeading == normalizeLine(cands[j].title)
         IN  (IF normToc # <<>> /\ normHeading # <<>>
                 /\ (Includes(normHeading, normToc) \/ Includes(normToc, normHeading))
              THEN <<cands[j].page - entries[i].page>> ELSE <<>>)
             \o DeltaList(i, j + 1, entries, cands)

Votes(d, deltas) == Cardinality({k \in 1..Len(deltas) : deltas[k] = d})

\* variant: the delta recorded last
inferTocOffsetLast(entries, cands) ==
    LET deltas == DeltaList(1, 1, entries, cands)
    IN  IF deltas = <<>> THEN 0 ELSE deltas[Len(deltas)]

\* the delta with the most votes; among equals the one recorded first (the map
\* keeps insertion order and the sort is stable)
inferTocOffset(entries, cands) ==
    LET deltas == DeltaList(1, 1, entries, cands)
    IN  IF deltas = <<>> THEN 0
        ELSE LET w == CHOOSE k \in 1..Len(deltas) :
                        /\ \A m \in 1..Len(deltas) : Votes(deltas[m], deltas) <= Votes(deltas[k], deltas)
                        /\ \A m \in 1..(k - 1) : Votes(deltas[m], deltas) < Votes(deltas[k], deltas)
             IN  deltas[w]

ProjectTocStarts(tocResult, cands, numPages) ==
    IF tocResult = NoToc THEN <<>>
    ELSE LET offset == inferTocOffset(tocResult.entries, cands)
         IN  SelectSeq([i \in 1..Len(tocResult.entries) |->
                           [page |-> tocResult.entries[i].page + offset,
                            title |-> tocResult.entries[i].title]],
                       LAMBDA e : e.page >= 1 /\ e.page <= numPages)

-----------------------------------------------------------------------------
(* chapters/route.ts: toChaptersFromStarts *)

TitleDocument    == <<"Document">>
TitleFrontMatter == <<"Front", "Matter">>

DocumentChapter(numPages) ==
    <<[index |-> 1, title |-> TitleDocument, startPage |-> 1, endPage |-> numPages]>>

ClampPage(page, numPages) == Max(1, Min(numPages, page))

RECURSIVE SortedSeq(_)
SortedSeq(S) ==
    IF S = {} THEN <<>>
    ELSE LET m == CHOOSE x \in S : \A y \in S : x <= y
         IN  <<m>> \o SortedSeq(S \ {m})

\* new Map(entries): one entry per clamped page, holding the title written last
UniqStarts(starts, numPages) ==
    LET pageSet == {ClampPage(starts[i].page, numPages) : i \in 1..Len(starts)}
        sorted == SortedSeq(pageSet)
        lastOf(pg) == CHOOSE i \in 1..Len(starts) :
                        /\ ClampPage(starts[i].page, numPages) = pg
                        /\ \A j \in (i + 1)..Len(starts) : ClampPage(starts[j].page, numPages) # pg
    IN  [k \in 1..Len(sorted) |-> [page |-> sorted[k], title |-> cleanTitle(starts[lastOf(sorted[k])].title)]]

\* variant: a chapter ends on the page where the next one starts
ChapterEndOnNextStart(uniq, idx, numPages) ==
    LET nextStart == IF idx + 1 <= Len(uniq) THEN uniq[idx + 1].page ELSE numPages + 1
    IN  Max(uniq[idx].page, Min(nextStart, numPages))

ChapterEnd(uniq, idx, numPages) ==
    LET nextStart == IF idx + 1 <= Len(uniq) THEN uniq[idx + 1].page ELSE numPages + 1
    IN  Max(uniq[idx].page, Min(nextStart - 1, numPages))

toChaptersFromStarts(starts, numPages) ==
    LET uniq == UniqStarts(starts, numPages)
    IN  IF Len(uniq) < 2 THEN DocumentChapter(numPages)
        ELSE [idx \in 1..Len(uniq) |->
                [index |-> idx, title |-> uniq[idx].title,
                 startPage |-> uniq[idx].page, endPage |-> ChapterEnd(uniq, idx, numPages)]]

\* the legacy pass: the first 14 words of each page, kept when they look like a heading
\* variant: every page is a legacy candidate
LegacyCandidatesUnfiltered(pages) ==
    LET firstChunk(i) == FirstWords(Flatten(pages[i].text), 14)
    IN  [i \in 1..Len(pages) |-> [page |-> pages[i].pageNumber, title |-> cleanTitle(firstChunk(i))]]

LegacyCandidates(pages) ==
    LET firstChunk(i) == FirstWords(Flatten(pages[i].text), 14)
    IN  Flatten([i \in 1..Len(pages) |->
                    IF looksLikeHeadingLegacy(firstChunk(i))
                    THEN <<[page |-> pages[i].pageNumber, title |-> cleanTitle(firstChunk(i))]>>
                    ELSE <<>>])

ScoredStarts(cands) == [i \in 1..Len(cands) |-> [page |-> cands[i].page, title |-> cands[i].title]]

\* variant: the TOC is preferred only from three starts on
UseTocFromThree(starts) == Len(starts) >= 3

UseToc(starts) == Len(starts) >= 2

InsertFrontMatter(chs) ==
    LET firstStart == IF Len(chs) > 0 THEN chs[1].startPage ELSE 1
    IN  IF firstStart > 1
        THEN <<[index |-> 1, title |-> TitleFrontMatter, startPage |-> 1, endPage |-> firstStart - 1]>>
             \o [i \in 1..Len(chs) |-> [chs[i] EXCEPT !.index = chs[i].index + 1]]
        ELSE chs

-----------------------------------------------------------------------------
(* The documents the extractor hands to detection *)

MaxPages == 4

LnBody    == <<"the", "quick", "fox">>
LnMarker  == <<"TABLE", "OF", "CONTENTS">>
TocLine(title, n) == <<title, LeaderToken, n>>

TxtBody     == <<LnBody>>
TxtChapter  == <<<<"Chapter", "1", "Alpha">>>>
TxtCaps     == <<<<"OVERVIEW">>>>
TxtLate     == <<LnBody, <<"Chapter", "2", "Beta">>>>
TxtIntro    == <<<<"1", "Introduction">>>>
TxtMethods  == <<<<"2", "Methods">>>>
TxtTocSmall == <<LnMarker, TocLine("Alpha", "2"), TocLine("Beta", "3"), TocLine("Gamma", "4")>>
TxtTocSame  == <<LnMarker, TocLine("Alpha", "2"), TocLine("Beta", "2"), TocLine("Gamma", "2")>>
TxtTocTwo   == <<LnMarker, TocLine("Introduction", "3"), TocLine("Methods", "10")>>
TxtTocThree == <<LnMarker, TocLine("Introduction", "3"), TocLine("Methods", "10"), TocLine("Results", "12")>>

\* a page that mentions the contents and has three lines ending in a page
\* number among 17 lines: a density of 3/17, under 18%
TxtTocSparse == TxtTocSmall \o [i \in 1..13 |-> LnBody]

\* the same with 16 lines: a density of 3/16, over 18%
TxtTocDense == TxtTocSmall \o [i \in 1..12 |-> LnBody]

SmallPageTexts == {TxtBody, TxtChapter, TxtCaps, TxtLate, TxtTocSmall, TxtTocSame}

MkPages(texts) ==
    [i \in 1..Len(texts) |-> [pageNumber |-> i, text |-> texts[i], lines |-> <<>>, maxFontSize |-> 0]]

MkDoc(texts) == [numPages |-> Len(texts), pages |-> MkPages(texts)]

SmallDocs == {MkDoc(t) : t \in UNION {[1..n -> SmallPageTexts] : n \in 0..MaxPages}}

\* the documents of the two-entry contents page: 10 to 12 pages, the contents
\* page first, headings possible on pages 3, 4 and 10
ScenarioTexts(n, tocText, p3, p4, p10) ==
    [i \in 1..n |-> IF i = 1 THEN tocText
                    ELSE IF i = 3 THEN p3
                    ELSE IF i = 4 THEN p4
                    ELSE IF i = 10 THEN p10
                    ELSE TxtBody]

ScenarioDocs ==
    {MkDoc(ScenarioTexts(n, t, p3, p4, p10)) :
        n \in {10, 11, 12}, t \in {TxtTocTwo, TxtTocThree},
        p3 \in {TxtBody, TxtIntro}, p4 \in {TxtBody, TxtIntro}, p10 \in {TxtBody, TxtMethods}}

\* a contents page of 90 lines: the marker, 15 entries and 64 other lines in the
\* first 80 lines (a density of 15/80), then 10 more lines (15/90 on the page)
TxtTocLong ==
    <<LnMarker>> \o [i \in 1..15 |-> TocLine("Alpha", "2")] \o [i \in 1..74 |-> LnBody]

\* documents with contents pages of low and of sufficient density, and
\* documents with a contents page at or after the end of the scanned pages
TocDocs ==
    {MkDoc(t) : t \in UNION {[1..n -> {TxtBody, TxtTocSparse, TxtTocDense, TxtTocLong}] : n \in 1..3}}
        \cup {MkDoc([i \in 1..n |-> IF i = k THEN t ELSE TxtBody]) :
                  n \in {9, 10}, k \in {8, 9}, t \in {TxtTocSmall, TxtTocSparse}}

\* a page that starts with a bare page number, and a page on which one line
\* occurs three times
TxtNumbered == <<<<"2">>, <<"Chapter", "1", "Alpha">>>>

TxtRepeated == <<LnBody, LnBody, LnBody, <<"Chapter", "1", "Alpha">>>>

BoilerplateDocs ==
    {MkDoc(t) : t \in UNION {[1..n -> {TxtBody, TxtNumbered, TxtRepeated}] : n \in 1..2}}

Docs == SmallDocs \cup ScenarioDocs \cup TocDocs \cup BoilerplateDocs

NoDoc == [numPages |-> 0, pages |-> <<>>]

-----------------------------------------------------------------------------
(* detectChapters as a sequence of steps *)

DetectStart ==
    /\ pc = "start"
    /\ step = "read-pdf-blob"
    /\ doc = NoDoc
    /\ headingCandidates = <<>>
    /\ toc = NoToc
    /\ tocStarts = <<>>
    /\ useToc = FALSE
    /\ sourceStarts = <<>>
    /\ chapters = <<>>
    /\ confidence = 0

ChunkIdle ==
    /\ cpc = "idle"
    /\ callText = <<>>
    /\ callMaxBytes = 0
    /\ chunks = <<>>

SplitIdle ==
    /\ spc = "idle"
    /\ sentences = <<>>
    /\ words = <<>>
    /\ token = <<>>
    /\ sliceLen = 0
    /\ cur = <<>>
    /\ out = <<>>

NoDocTypeInfo == [docType |-> "unknown", scores |-> <<>>]

DocTypeIdle ==
    /\ dpc = "idle"
    /\ dtPages = <<>>
    /\ dtTocPage = 0
    /\ docTypeInfo = NoDocTypeInfo

\* NextResponse.json({ error: ... }, { status }): the body of an error response
\* has an error field and no step field
Absent == "undefined"

NoErrorBody == [error |-> Absent, step |-> Absent]

ErrorBody(message) == [error |-> message, step |-> Absent]

RenderIdle ==
    /\ rpc = "idle"
    /\ inputsOk = FALSE
    /\ extractedUrl = "absent"
    /\ renderPages = "null"
    /\ ssmlChunks = <<>>
    /\ chunkIdx = 0
    /\ tryIdx = 0
    /\ lastErr = 0
    /\ mp3Parts = <<>>
    /\ events = <<>>
    /\ blobs = {}
    /\ response = 0
    /\ errorBody = NoErrorBody

StoreIdle ==
    /\ reqs = <<>>
    /\ now = 0
    /\ store = {}
    /\ writes = <<>>

CleanIdle ==
    /\ npc = "idle"
    /\ raw = <<>>
    /\ cleaned = <<>>
    /\ recleaned = <<>>

ExtractIdle ==
    /\ epc = "idle"
    /\ rawPages = <<>>
    /\ extracted = [numPages |-> 0, pages |-> <<>>]

\* the chapter list of every document of the client page has the indices
\* 1..PageChapterCount
PageChapterCount == 2

ChapterIndices == 1..PageChapterCount

NoUrl == [doc |-> 0, chapter |-> 0]

NoLoading == [stage |-> "none", doc |-> 0]

\* the state of the page component before a file is uploaded
PageStart ==
    /\ isUploading = FALSE
    /\ isDetecting = FALSE
    /\ pdfUrl = 0
    /\ loadedChapters = 0
    /\ chapterDownloads = [c \in ChapterIndices |-> NoUrl]
    /\ chapterStatus = [c \in ChapterIndices |-> "unset"]
    /\ generatingByChapter = [c \in ChapterIndices |-> FALSE]
    /\ generatingAll = FALSE
    /\ allRuns = {}
    /\ inflight = <<>>
    /\ loading = NoLoading
    /\ uploads = 0
    /\ renders = 0

RestIdle == DocTypeIdle /\ RenderIdle /\ StoreIdle /\ CleanIdle /\ ExtractIdle /\ PageStart

InitDetect == DetectStart /\ ChunkIdle /\ SplitIdle /\ RestIdle

ExtractPages ==
    /\ pc = "start"
    /\ \E d \in Docs : doc' = d
    /\ step' = "extract-pages"
    /\ pc' = "headings"
    /\ UNCHANGED <<headingCandidates, toc, tocStarts, useToc, sourceStarts, chapters, confidence, chunkVars, splitVars, restVars>>

DetectHeadings ==
    /\ pc = "headings"
    /\ step' = "detect-headings"
    /\ headingCandidates' = DetectHeadingCandidates(doc.pages)
    /\ pc' = "toc"
    /\ UNCHANGED <<doc, toc, tocStarts, useToc, sourceStarts, chapters, confidence, chunkVars, splitVars, restVars>>

DetectToc ==
    /\ pc = "toc"
    /\ step' = "detect-toc"
    /\ toc' = detectTocEntries(doc.pages)
    /\ tocStarts' = ProjectTocStarts(toc', headingCandidates, doc.numPages)
    /\ pc' = "primary"
    /\ UNCHANGED <<doc, headingCandidates, useToc, sourceStarts, chapters, confidence, chunkVars, splitVars, restVars>>

SegmentPrimary ==
    /\ pc = "primary"
    /\ useToc' = UseToc(tocStarts)
    /\ sourceStarts' = IF useToc' THEN tocStarts ELSE ScoredStarts(headingCandidates)
    /\ chapters' = toChaptersFromStarts(sourceStarts', doc.numPages)
    /\ pc' = "legacy"
    /\ UNCHANGED <<step, doc, headingCandidates, toc, tocStarts, confidence, chunkVars, splitVars, restVars>>

LegacyFallback ==
    /\ pc = "legacy"
    /\ chapters' = IF Len(chapters) < 2
                   THEN toChaptersFromStarts(LegacyCandidates(doc.pages), doc.numPages)
                   ELSE chapters
    /\ pc' = "single"
    /\ UNCHANGED <<step, doc, headingCandidates, toc, tocStarts, useToc, sourceStarts, confidence, chunkVars, splitVars, restVars>>

SingleChapterFallback ==
    /\ pc = "single"
    /\ chapters' = IF Len(chapters) < 2 THEN DocumentChapter(doc.numPages) ELSE chapters
    /\ pc' = "front"
    /\ UNCHANGED <<step, doc, headingCandidates, toc, tocStarts, useToc, sourceStarts, confidence, chunkVars, splitVars, restVars>>

\* variant: a single chapter always reports the lowest confidence
confidenceRawIgnoringCandidates(chs, cands) ==
    IF Len(chs) >= 3 THEN 90 ELSE IF Len(chs) >= 2 THEN 75 ELSE 35

\* confidenceRaw, in hundredths
confidenceRaw(chs, cands) ==
    IF Len(chs) >= 3 THEN 90
    ELSE IF Len(chs) >= 2 THEN 75
    ELSE IF Len(cands) # 0 THEN 60
    ELSE 35

\* Math.max(0, Math.min(1, confidenceRaw))
Confidence(chs, cands) == Max(0, Min(100, confidenceRaw(chs, cands)))

FrontMatter ==
    /\ pc = "front"
    /\ chapters' = InsertFrontMatter(chapters)
    /\ confidence' = Confidence(chapters', headingCandidates)
    /\ pc' = "done"
    /\ UNCHANGED <<step, doc, headingCandidates, toc, tocStarts, useToc, sourceStarts, chunkVars, splitVars, restVars>>

NextDetect ==
    \/ ExtractPages
    \/ DetectHeadings
    \/ DetectToc
    \/ SegmentPrimary
    \/ LegacyFallback
    \/ SingleChapterFallback
    \/ FrontMatter

SpecDetect == InitDetect /\ [][NextDetect]_vars

-----------------------------------------------------------------------------
(* Properties of chapter detection *)

Detected == pc = "done"

Sorted(chs) == \A i \in 1..(Len(chs) - 1) : chs[i].startPage < chs[i + 1].startPage

CoversExactly(chs, numPages) ==
    /\ Len(chs) >= 1
    /\ chs[1].startPage = 1
    /\ chs[Len(chs)].endPage = numPages
    /\ \A i \in 1..Len(chs) : chs[i].startPage <= chs[i].endPage
    /\ \A i \in 1..(Len(chs) - 1) : chs[i + 1].startPage = chs[i].endPage + 1

IndicesContiguous(chs) == \A i \in 1..Len(chs) : chs[i].index = i

\* C1: for an extraction result with numPages >= 1 and pages numbered
\* 1..numPages, the returned chapter list is sorted by startPage, its ranges
\* cover 1..numPages exactly once, and its indices are exactly 1..length.
C1_Coverage ==
    (Detected /\ doc.numPages >= 1) =>
        /\ Sorted(chapters)
        /\ CoversExactly(chapters, doc.numPages)
        /\ IndicesContiguous(chapters)

\* a result with Front Matter in front of at least two detected chapters
C1_Witness ==
    /\ Detected
    /\ doc.numPages >= 3
    /\ Len(chapters) >= 3
    /\ chapters[1].title = TitleFrontMatter

\* C11 as claimed: with no detected TOC and no accepted heading candidate,
\* detection yields the single chapter "Document" over pages 1..numPages and
\* reports confidence 0.35.
SingleDocument ==
    /\ chapters = <<[index |-> 1, title |-> <<"Document">>, startPage |-> 1, endPage |-> doc.numPages]>>
    /\ confidence = 35

C11_NoCandidatesSingleDocument ==
    (Detected /\ toc = NoToc /\ headingCandidates = <<>>) => SingleDocument

\* the pages whose first 14 words pass the legacy heading test
LegacyPages ==
    {i \in 1..Len(doc.pages) : looksLikeHeadingLegacy(FirstWords(Flatten(doc.pages[i].text), 14))}

\* C11 amended: the same when, in addition, fewer than 2 pages pass the legacy
\* heading test.
C11_NoLegacySingleDocument ==
    (Detected /\ toc = NoToc /\ headingCandidates = <<>> /\ Cardinality(LegacyPages) < 2)
        => SingleDocument

\* a document of several pages, one of them passing the legacy test, none scored
C11_Witness ==
    /\ Detected
    /\ toc = NoToc
    /\ headingCandidates = <<>>
    /\ doc.numPages >= 2
    /\ Cardinality(LegacyPages) = 1

\* the three tests of a contents page, on the first 80 lines of the page
PassesTocTests(page) ==
    LET lineSeq == SubSeq(textToLines(page.text), 1, Min(80, Len(textToLines(page.text))))
        digitLines == {i \in 1..Len(lineSeq) : EndsInPageRef(lineSeq[i])}
    IN  /\ HasContentsMarker(lineSeq)
        /\ Cardinality(digitLines) * 100 >= 18 * Len(lineSeq)
        /\ Len(ParseTocLines(lineSeq)) >= 3

\* fewer than 18% of the lines of the page end in a 1-4 digit run
LowDensity(page) ==
    LET lineSeq == textToLines(page.text)
    IN  Cardinality({i \in 1..Len(lineSeq) : EndsInPageRef(lineSeq[i])}) * 100 < 18 * Len(lineSeq)

\* C12: detectTocEntries never selects a page on which fewer than 18% of the
\* lines end in a 1-4 digit run, contents marker or not; it returns the first of
\* the first 8 pages that passes the marker test, the density test and yields at
\* least 3 parsed entries, and no TOC when there is no such page.
C12_TocPageSelection ==
    pc \in {"primary", "legacy", "single", "front", "done"} =>
        LET passing == {i \in 1..Min(8, Len(doc.pages)) : PassesTocTests(doc.pages[i])}
        IN  /\ toc # NoToc =>
                  /\ toc.tocPage \in passing
                  /\ \A j \in passing : toc.tocPage <= j
                  /\ ~LowDensity(doc.pages[toc.tocPage])
            /\ toc = NoToc => passing = {}

\* C13: the reported confidence is 0.9 with at least 3 chapters in the returned
\* list, 0.75 with exactly 2, 0.6 with exactly 1 and at least one accepted
\* heading candidate, and 0.35 otherwise; no other value is reported.
C13_ConfidenceHeuristic ==
    Detected =>
        /\ confidence \in {90, 75, 60, 35}
        /\ confidence = 90 <=> Len(chapters) >= 3
        /\ confidence = 75 <=> Len(chapters) = 2
        /\ confidence = 60 <=> (Len(chapters) = 1 /\ Len(headingCandidates) >= 1)
        /\ confidence = 35 <=> (Len(chapters) < 1 \/ (Len(chapters) = 1 /\ headingCandidates = <<>>))

\* a heading candidate was accepted and the result is a single chapter
C13_Witness ==
    /\ Detected
    /\ Len(chapters) = 1
    /\ Len(headingCandidates) >= 1
    /\ confidence = 60

\* C2: every chapter of a detection result has startPage <= endPage, for every
\* extraction result, the one with numPages = 0 included.
C2_StartLeEnd ==
    Detected => \A i \in 1..Len(chapters) : chapters[i].startPage <= chapters[i].endPage

\* C8: the ladder of sources is tried in order (the TOC starts when there are at
\* least 2 of them, then the heading candidates, then the legacy pass) and
\* stops at the first source that yields at least 2 chapters, before the single
\* "Document" chapter.
RECURSIVE FirstYielding(_, _)
FirstYielding(sources, numPages) ==
    IF sources = <<>> THEN DocumentChapter(numPages)
    ELSE IF Len(toChaptersFromStarts(Head(sources), numPages)) >= 2
         THEN toChaptersFromStarts(Head(sources), numPages)
         ELSE FirstYielding(Tail(sources), numPages)

LadderSources ==
    (IF Len(tocStarts) >= 2 THEN <<tocStarts>> ELSE <<>>)
        \o <<ScoredStarts(headingCandidates), LegacyCandidates(doc.pages)>>

C8_LadderInOrder ==
    Detected => chapters = InsertFrontMatter(FirstYielding(LadderSources, doc.numPages))

\* C9: with at least 2 projected TOC starts the TOC starts are the ones given to
\* toChaptersFromStarts, whatever heading candidates exist; the heading
\* candidates are given only with fewer than 2 TOC starts.
C9_TocPriority ==
    pc \in {"legacy", "single", "front", "done"} =>
        sourceStarts = IF Len(tocStarts) >= 2 THEN tocStarts ELSE ScoredStarts(headingCandidates)

\* two TOC starts are used although two heading candidates exist
C9_Witness ==
    /\ Detected
    /\ Len(tocStarts) = 2
    /\ Len(headingCandidates) >= 2
    /\ sourceStarts = tocStarts
    /\ sourceStarts # ScoredStarts(headingCandidates)

\* C10 as claimed: a document of at least 10 pages whose first page lists exactly
\* Introduction -> 3 and Methods -> 10, offset 0: Front Matter for pages 1-2,
\* "Introduction" from page 3, "Methods" from page 10.
ScenarioAResult(chs) ==
    /\ Len(chs) >= 3
    /\ chs[1] = [index |-> 1, title |-> TitleFrontMatter, startPage |-> 1, endPage |-> 2]
    /\ chs[2].title = <<"Introduction">> /\ chs[2].startPage = 3
    /\ chs[3].title = <<"Methods">> /\ chs[3].startPage = 10

FirstPageOffset == inferTocOffset(ParseTocLines(TocLinesOf(doc.pages[1])), headingCandidates)

C10_TwoEntryToc ==
    (Detected /\ doc.numPages >= 10 /\ doc.pages[1].text = TxtTocTwo /\ FirstPageOffset = 0)
        => ScenarioAResult(chapters)

\* C10 amended: the same with a third entry after page 10 on the contents page
\* (three parsed entries are what makes a page the TOC).
C10_ThreeEntryToc ==
    (Detected /\ doc.numPages >= 10 /\ doc.pages[1].text = TxtTocThree /\ FirstPageOffset = 0)
        => ScenarioAResult(chapters)

C10_Witness ==
    /\ Detected
    /\ doc.numPages >= 10
    /\ doc.pages[1].text = TxtTocThree
    /\ FirstPageOffset = 0
    /\ toc # NoToc
    /\ Len(headingCandidates) >= 1

-----------------------------------------------------------------------------
(* Strings of the chunking code.  A string is a sequence of runs           *)
(* [ch, n]: n >= 1 copies of the UTF-16 code unit (or markup symbol) ch,   *)
(* adjacent runs having different ch.  "a" is a letter, "q" the double     *)
(* quote, "E" the euro sign (3 bytes in UTF-8); "H" and "L" are a high and *)
(* a low surrogate: Buffer.byteLength counts an adjacent H L pair as one   *)
(* 4-byte character and a lone surrogate as the 3-byte replacement         *)
(* character.                                                              *)

Run(c, k) == [ch |-> c, n |-> k]

Str(c, k) == <<Run(c, k)>>

Width(c) ==
    CASE c \in {"a", "b", ".", " ", "\n", "q"} -> 1
      [] c \in {"E", "H", "L"} -> 3
      [] c = "&quot;" -> 6
      [] c = "<speak>" -> 7
      [] c = "</speak>" -> 8
      [] c \in {"<p>", "<s>"} -> 3
      [] c \in {"</p>", "</s>"} -> 4
      [] c = "<break time=\"250ms\"/>" -> 21

IsWs(c) == c \in {" ", "\n"}

IsTerminator(c) == c = "."

\* string concatenation
Cat(x, y) ==
    IF x = <<>> THEN y
    ELSE IF y = <<>> THEN x
    ELSE IF x[Len(x)].ch = y[1].ch
         THEN SubSeq(x, 1, Len(x) - 1)
                \o <<Run(y[1].ch, x[Len(x)].n + y[1].n)>>
                \o Tail(y)
         ELSE x \o y

RECURSIVE CatAll(_)
CatAll(ss) == IF ss = <<>> THEN <<>> ELSE Cat(Head(ss), CatAll(Tail(ss)))

\* s.length
StrLen(s) == SumSeq([i \in 1..Len(s) |-> s[i].n])

SurrogatePairs(s) ==
    Cardinality({i \in 1..(Len(s) - 1) : s[i].ch = "H" /\ s[i + 1].ch = "L"})

\* variant: every code unit counts as one byte
utf8BytesAsLength(s) == StrLen(s)

\* Buffer.byteLength(s, "utf8")
utf8Bytes(s) == SumSeq([i \in 1..Len(s) |-> s[i].n * Width(s[i].ch)]) - 2 * SurrogatePairs(s)

\* s.slice(0, k)
RECURSIVE Take(_, _)
Take(s, k) ==
    IF k <= 0 \/ s = <<>> THEN <<>>
    ELSE IF s[1].n <= k THEN <<s[1]>> \o Take(Tail(s), k - s[1].n)
    ELSE <<Run(s[1].ch, k)>>

\* s.slice(k)
RECURSIVE Drop(_, _)
Drop(s, k) ==
    IF k <= 0 \/ s = <<>> THEN s
    ELSE IF s[1].n <= k THEN Drop(Tail(s), k - s[1].n)
    ELSE <<Run(s[1].ch, s[1].n - k)>> \o Tail(s)

RECURSIVE TrimStart(_)
TrimStart(s) == IF s # <<>> /\ IsWs(s[1].ch) THEN TrimStart(Tail(s)) ELSE s

RECURSIVE TrimEnd(_)
TrimEnd(s) ==
    IF s # <<>> /\ IsWs(s[Len(s)].ch) THEN TrimEnd(SubSeq(s, 1, Len(s) - 1)) ELSE s

\* s.trim()
Trim(s) == TrimEnd(TrimStart(s))

NonEmpty(ss) == SelectSeq(ss, LAMBDA x : x # <<>>)

\* s.split(/\s+/): acc is the piece being read
RECURSIVE SplitWsFrom(_, _)
SplitWsFrom(s, acc) ==
    IF s = <<>> THEN <<acc>>
    ELSE IF IsWs(s[1].ch) THEN <<acc>> \o SplitWsFrom(TrimStart(s), <<>>)
    ELSE SplitWsFrom(Tail(s), acc \o <<s[1]>>)

\* s.split(/\s+/).filter(Boolean)
Words(s) == NonEmpty(SplitWsFrom(s, <<>>))

\* s.split(/(?<=[.!?])\s+/): whitespace splits only right after a terminator
RECURSIVE SplitSentencesFrom(_, _)
SplitSentencesFrom(s, acc) ==
    IF s = <<>> THEN <<acc>>
    ELSE IF IsWs(s[1].ch) /\ acc # <<>> /\ IsTerminator(acc[Len(acc)].ch)
         THEN <<acc>> \o SplitSentencesFrom(TrimStart(s), <<>>)
    ELSE SplitSentencesFrom(Tail(s), acc \o <<s[1]>>)

Sentences(s) == NonEmpty(SplitSentencesFrom(s, <<>>))

\* s.split(/\n{2,}/g): a run of two or more line feeds separates paragraphs
RECURSIVE SplitParagraphsFrom(_, _)
SplitParagraphsFrom(s, acc) ==
    IF s = <<>> THEN <<acc>>
    ELSE IF s[1].ch = "\n" /\ s[1].n >= 2
         THEN <<acc>> \o SplitParagraphsFrom(Tail(s), <<>>)
    ELSE SplitParagraphsFrom(Tail(s), acc \o <<s[1]>>)

\* text.split(/\n{2,}/g).map((p) => p.trim()).filter(Boolean)
Paragraphs(s) ==
    LET parts == SplitParagraphsFrom(s, <<>>)
    IN  NonEmpty([i \in 1..Len(parts) |-> Trim(parts[i])])

-----------------------------------------------------------------------------
(* render-chapter/route.ts: splitToByteSafeParts, as a function.  The loop  *)
(* state is the record [cur, out] of the code's two locals.  Each loop is  *)
(* a recursion on what is left to process; its test Evaluated(st) is       *)
(* always true and only makes TLC compute the state of one iteration       *)
(* before it starts the next, which keeps the evaluation stack shallow.    *)

Evaluated(st) == Len(st.out) >= 0

Space == Str(" ", 1)

ParagraphBreak == Str("\n", 2)

\* pushCur()
pushCur(st) ==
    [cur |-> <<>>,
     out |-> IF Trim(st.cur) # <<>> THEN Append(st.out, Trim(st.cur)) ELSE st.out]

\* variant: the current part is overwritten without being pushed
AddPieceOverwriting(st, piece, maxBytes) ==
    LET candidate == IF st.cur # <<>> THEN CatAll(<<st.cur, Space, piece>>) ELSE piece
    IN  IF utf8Bytes(candidate) <= maxBytes
        THEN [st EXCEPT !.cur = candidate]
        ELSE [st EXCEPT !.cur = piece]

\* candidate = cur ? `${cur} ${piece}` : piece; keep it if it fits, else push and restart
AddPiece(st, piece, maxBytes) ==
    LET candidate == IF st.cur # <<>> THEN CatAll(<<st.cur, Space, piece>>) ELSE piece
    IN  IF utf8Bytes(candidate) <= maxBytes
        THEN [st EXCEPT !.cur = candidate]
        ELSE [pushCur(st) EXCEPT !.cur = piece]

\* variant: the slice length shrinks to the ceiling of 80%
ShrinkCeil(len) == (len * 4 + 4) \div 5

\* Math.floor(sliceLen * 0.8)
Shrink(len) == (len * 4) \div 5

\* while (sliceLen > 1 && utf8Bytes(token.slice(0, sliceLen)) > maxBytes)
SliceTooLong(tok, len, maxBytes) ==
    len > 1 /\ utf8Bytes(Take(tok, len)) > maxBytes

RECURSIVE FitSliceLen(_, _, _)
FitSliceLen(tok, len, maxBytes) ==
    IF SliceTooLong(tok, len, maxBytes)
    THEN FitSliceLen(tok, Shrink(len), maxBytes)
    ELSE len

\* token.slice(0, Math.max(1, sliceLen))
PartOf(tok, len) == Take(tok, Max(1, len))

\* the force split of a word longer than the budget, and what is left of it
RECURSIVE ForceSplit(_, _, _)
ForceSplit(st, tok, maxBytes) ==
    IF Evaluated(st) /\ utf8Bytes(tok) > maxBytes
    THEN LET part == PartOf(tok, FitSliceLen(tok, StrLen(tok), maxBytes))
         IN  ForceSplit(AddPiece(st, part, maxBytes), Drop(tok, StrLen(part)), maxBytes)
    ELSE IF tok # <<>> THEN AddPiece(st, tok, maxBytes) ELSE st

AddWord(st, w, maxBytes) ==
    IF utf8Bytes(w) > maxBytes THEN ForceSplit(st, w, maxBytes)
    ELSE AddPiece(st, w, maxBytes)

RECURSIVE AddWords(_, _, _)
AddWords(st, ws, maxBytes) ==
    IF ws = <<>> \/ ~Evaluated(st) THEN st
    ELSE AddWords(AddWord(st, Head(ws), maxBytes), Tail(ws), maxBytes)

AddSentence(st, sentence, maxBytes) ==
    IF utf8Bytes(sentence) <= maxBytes THEN AddPiece(st, sentence, maxBytes)
    ELSE AddWords(st, Words(sentence), maxBytes)

RECURSIVE AddSentences(_, _, _)
AddSentences(st, ss, maxBytes) ==
    IF ss = <<>> \/ ~Evaluated(st) THEN st
    ELSE AddSentences(AddSentence(st, Head(ss), maxBytes), Tail(ss), maxBytes)

splitToByteSafeParts(input, maxBytes) ==
    LET text == Trim(input)
    IN  IF text = <<>> THEN <<>>
        ELSE IF utf8Bytes(text) <= maxBytes THEN <<text>>
        ELSE pushCur(AddSentences([cur |-> <<>>, out |-> <<>>], Sentences(text), maxBytes)).out

-----------------------------------------------------------------------------
(* The earlier render route: chunkText *)

\* candidate = cur ? `${cur}\n\n${part}` : part; flush() when it does not fit
AddPart(st, part, maxBytes) ==
    LET candidate == IF st.cur # <<>> THEN CatAll(<<st.cur, ParagraphBreak, part>>) ELSE part
    IN  IF utf8Bytes(candidate) <= maxBytes
        THEN [st EXCEPT !.cur = candidate]
        ELSE [pushCur(st) EXCEPT !.cur = part]

RECURSIVE AddParts(_, _, _)
AddParts(st, parts, maxBytes) ==
    IF parts = <<>> \/ ~Evaluated(st) THEN st
    ELSE AddParts(AddPart(st, Head(parts), maxBytes), Tail(parts), maxBytes)

RECURSIVE AddParagraphs(_, _, _)
AddParagraphs(st, ps, maxBytes) ==
    IF ps = <<>> \/ ~Evaluated(st) THEN st
    ELSE AddParagraphs(AddParts(st, splitToByteSafeParts(Head(ps), maxBytes), maxBytes),
                       Tail(ps), maxBytes)

chunkText(text, maxBytes) ==
    pushCur(AddParagraphs([cur |-> <<>>, out |-> <<>>], Paragraphs(text), maxBytes)).out

-----------------------------------------------------------------------------
(* Calls of chunkText: every text of at most MaxRuns runs, some texts of   *)
(* three pieces separated by a line feed and a space (the shape of the     *)
(* route's intro, "Chapter N.\nTitle."), and every budget up to MaxBudget. *)

MaxRuns == 4

MaxBudget == 5

RunKinds ==
    {Run("a", k) : k \in {1, 2, 7}}
        \cup {Run(c, k) : c \in {" ", "\n"}, k \in {1, 2}}
        \cup {Run(c, 1) : c \in {".", "E", "H", "L"}}

\* a run may follow a text that does not end in the same code unit
Follows(t, r) == t = <<>> \/ t[Len(t)].ch # r.ch

RECURSIVE TextsUpTo(_)
TextsUpTo(k) ==
    IF k = 0 THEN {<<>>}
    ELSE LET shorter == TextsUpTo(k - 1)
         IN  shorter \cup
             {Append(x[1], x[2]) : x \in {y \in shorter \X RunKinds : Follows(y[1], y[2])}}

Pieces == {Str("a", 1), Str("a", 2), Str(".", 1), <<Run("a", 1), Run(".", 1)>>}

LineThenSpaceTexts ==
    {CatAll(<<x, Str("\n", 1), y, Space, z>>) : x \in Pieces, y \in Pieces, z \in Pieces}

Texts == TextsUpTo(MaxRuns) \cup LineThenSpaceTexts

Budgets == 1..MaxBudget

InitChunk ==
    /\ DetectStart
    /\ RestIdle
    /\ SplitIdle
    /\ cpc = "ready"
    /\ callText \in Texts
    /\ callMaxBytes \in Budgets
    /\ chunks = <<>>

\* const chunks = chunkText(finalText, maxBytes)
ChunkText ==
    /\ cpc = "ready"
    /\ chunks' = chunkText(callText, callMaxBytes)
    /\ cpc' = "done"
    /\ UNCHANGED <<restVars, detectVars, callText, callMaxBytes, splitVars>>

NextChunk == ChunkText

SpecChunk == InitChunk /\ [][NextChunk]_vars

-----------------------------------------------------------------------------
(* Properties of chunkText *)

Chunked == cpc = "done"

\* the UTF-8 encoded size of a string: 1 to 3 bytes for a code unit of the
\* basic plane, 4 for a surrogate pair, 3 for a surrogate on its own
EncodedSize(s) ==
    SumSeq([i \in 1..Len(s) |-> s[i].n * Width(s[i].ch)])
        - 2 * Cardinality({i \in 1..(Len(s) - 1) : s[i].ch = "H" /\ s[i + 1].ch = "L"})

WithinBudget == \A i \in 1..Len(chunks) : EncodedSize(chunks[i]) <= callMaxBytes

\* C3 as claimed: for every text and every budget B, each chunk of chunkText
\* has an encoded size of at most B bytes.
C3_EveryBudget == Chunked => WithinBudget

\* C3 amended: the same for every budget of at least 3 bytes, the largest
\* encoded size of one code unit.
C3_BudgetOfThree == (Chunked /\ callMaxBytes >= 3) => WithinBudget

\* a word with a multi-byte character, longer than the budget, was force-split
C3_Witness ==
    /\ Chunked
    /\ callMaxBytes >= 3
    /\ Len(chunks) >= 2
    /\ \E w \in Range(Words(callText)) :
          /\ EncodedSize(w) > callMaxBytes
          /\ \E i \in 1..Len(w) : w[i].ch \in {"E", "H", "L"}

\* the string without its whitespace
RECURSIVE Squeeze(_)
Squeeze(s) ==
    IF s = <<>> THEN <<>>
    ELSE IF IsWs(s[1].ch) THEN Squeeze(Tail(s))
    ELSE Cat(<<s[1]>>, Squeeze(Tail(s)))

\* the chunks, in order, are pieces of the text that leave out only whitespace
\* between them
RECURSIVE CutsOf(_, _)
CutsOf(rest, cs) ==
    IF cs = <<>> THEN TrimStart(rest) = <<>>
    ELSE LET r == TrimStart(rest)
         IN  /\ Take(r, StrLen(Head(cs))) = Head(cs)
             /\ CutsOf(Drop(r, StrLen(Head(cs))), Tail(cs))

\* whitespace as the text cleaning leaves it: single spaces, single line feeds
\* and the blank line between paragraphs, none at the ends
IsNormalized(s) ==
    /\ Trim(s) = s
    /\ \A i \in 1..Len(s) :
          IsWs(s[i].ch) => /\ s[i].n <= (IF s[i].ch = "\n" THEN 2 ELSE 1)
                           /\ ~IsWs(s[i + 1].ch)

AllWordsFit == \A w \in Range(Words(callText)) : EncodedSize(w) <= callMaxBytes

WordsOfChunks == Flatten([i \in 1..Len(chunks) |-> Words(chunks[i])])

\* C5 as claimed: for every normalized text and budget, the chunks in order
\* reconstruct the text, differing from it only in whitespace and only at chunk
\* boundaries.
C5_OnlyAtBoundaries == (Chunked /\ IsNormalized(callText)) => CutsOf(callText, chunks)

\* C5 amended: the chunks hold exactly the non-whitespace characters of the
\* text, in order, and when every word fits the budget the words of the chunks
\* are the words of the text; whitespace may differ inside a chunk as well.
C5_UpToWhitespace ==
    Chunked =>
        /\ Squeeze(CatAll(chunks)) = Squeeze(callText)
        /\ AllWordsFit => WordsOfChunks = Words(callText)

\* a chunk of a normalized text that joins by a space what a line feed separates
C5_Witness ==
    /\ Chunked
    /\ IsNormalized(callText)
    /\ AllWordsFit
    /\ Len(chunks) >= 2
    /\ ~CutsOf(callText, chunks)

-----------------------------------------------------------------------------
(* render-chapter/route.ts: splitToByteSafeParts(callText, callMaxBytes),   *)
(* one loop iteration per step, on every text of at most MaxSplitRuns runs *)
(* (the function treats all whitespace alike, so one whitespace character  *)
(* is enough here) and on the texts of three pieces.                       *)

MaxSplitRuns == 2

SplitRunKinds ==
    {Run("a", k) : k \in {1, 7}} \cup {Run(c, 1) : c \in {" ", ".", "E", "H", "L"}}

RECURSIVE SplitTextsUpTo(_)
SplitTextsUpTo(k) ==
    IF k = 0 THEN {<<>>}
    ELSE LET shorter == SplitTextsUpTo(k - 1)
         IN  shorter \cup
             {Append(x[1], x[2]) : x \in {y \in shorter \X SplitRunKinds : Follows(y[1], y[2])}}

SplitTexts == SplitTextsUpTo(MaxSplitRuns) \cup LineThenSpaceTexts

InitSplit ==
    /\ DetectStart
    /\ RestIdle
    /\ cpc = "idle"
    /\ callText \in SplitTexts
    /\ callMaxBytes \in Budgets
    /\ chunks = <<>>
    /\ spc = "entry"
    /\ sentences = <<>>
    /\ words = <<>>
    /\ token = <<>>
    /\ sliceLen = 0
    /\ cur = <<>>
    /\ out = <<>>

Locals == [cur |-> cur, out |-> out]

\* the trimmed text is empty or fits: return; else split it into sentences
SplitEntry ==
    /\ spc = "entry"
    /\ LET t == Trim(callText)
       IN  IF t = <<>> THEN /\ out' = <<>>
                            /\ spc' = "done"
                            /\ UNCHANGED sentences
           ELSE IF utf8Bytes(t) <= callMaxBytes
                THEN /\ out' = <<t>>
                     /\ spc' = "done"
                     /\ UNCHANGED sentences
           ELSE /\ sentences' = Sentences(t)
                /\ out' = <<>>
                /\ spc' = "sentence"
    /\ UNCHANGED <<restVars, detectVars, chunkVars, words, token, sliceLen, cur>>

\* for (const sentence of sentences): a fitting sentence is added whole;
\* after the last one, pushCur() and return
NextSentence ==
    /\ spc = "sentence"
    /\ IF sentences = <<>>
       THEN /\ cur' = pushCur(Locals).cur
            /\ out' = pushCur(Locals).out
            /\ spc' = "done"
            /\ UNCHANGED <<sentences, words>>
       ELSE /\ sentences' = Tail(sentences)
            /\ IF utf8Bytes(Head(sentences)) <= callMaxBytes
               THEN /\ cur' = AddPiece(Locals, Head(sentences), callMaxBytes).cur
                    /\ out' = AddPiece(Locals, Head(sentences), callMaxBytes).out
                    /\ UNCHANGED <<spc, words>>
               ELSE /\ words' = Words(Head(sentences))
                    /\ spc' = "word"
                    /\ UNCHANGED <<cur, out>>
    /\ UNCHANGED <<restVars, detectVars, chunkVars, token, sliceLen>>

\* for (const w of words): a fitting word is added; a longer one is force-split
NextWord ==
    /\ spc = "word"
    /\ IF words = <<>>
       THEN /\ spc' = "sentence"
            /\ UNCHANGED <<words, token, cur, out>>
       ELSE /\ words' = Tail(words)
            /\ IF utf8Bytes(Head(words)) > callMaxBytes
               THEN /\ token' = Head(words)
                    /\ spc' = "outer"
                    /\ UNCHANGED <<cur, out>>
               ELSE /\ cur' = AddPiece(Locals, Head(words), callMaxBytes).cur
                    /\ out' = AddPiece(Locals, Head(words), callMaxBytes).out
                    /\ UNCHANGED <<spc, token>>
    /\ UNCHANGED <<restVars, detectVars, chunkVars, sentences, sliceLen>>

\* while (utf8Bytes(token) > maxBytes): start from the whole token; when the
\* loop ends, what is left of the token is added
OuterTest ==
    /\ spc = "outer"
    /\ IF utf8Bytes(token) > callMaxBytes
       THEN /\ sliceLen' = StrLen(token)
            /\ spc' = "inner"
            /\ UNCHANGED <<cur, out>>
       ELSE /\ cur' = IF token # <<>> THEN AddPiece(Locals, token, callMaxBytes).cur ELSE cur
            /\ out' = IF token # <<>> THEN AddPiece(Locals, token, callMaxBytes).out ELSE out
            /\ spc' = "word"
            /\ UNCHANGED sliceLen
    /\ UNCHANGED <<restVars, detectVars, chunkVars, sentences, words, token>>

\* one iteration of the inner while: sliceLen = Math.floor(sliceLen * 0.8)
InnerShrink ==
    /\ spc = "inner"
    /\ SliceTooLong(token, sliceLen, callMaxBytes)
    /\ sliceLen' = Shrink(sliceLen)
    /\ UNCHANGED <<restVars, detectVars, chunkVars, spc, sentences, words, token, cur, out>>

\* the inner while has ended: the part is cut off the token and added
TakePart ==
    /\ spc = "inner"
    /\ ~SliceTooLong(token, sliceLen, callMaxBytes)
    /\ cur' = AddPiece(Locals, PartOf(token, sliceLen), callMaxBytes).cur
    /\ out' = AddPiece(Locals, PartOf(token, sliceLen), callMaxBytes).out
    /\ token' = Drop(token, StrLen(PartOf(token, sliceLen)))
    /\ spc' = "outer"
    /\ UNCHANGED <<restVars, detectVars, chunkVars, sentences, words, sliceLen>>

NextSplit ==
    \/ SplitEntry
    \/ NextSentence
    \/ NextWord
    \/ OuterTest
    \/ InnerShrink
    \/ TakePart

SpecSplit == InitSplit /\ [][NextSplit]_vars

\* every step of the function is eventually taken
SpecSplitFair == SpecSplit /\ WF_vars(NextSplit)

\* the steps compute what the function returns
SplitReturns == spc = "done" => out = splitToByteSafeParts(callText, callMaxBytes)

\* an iteration of the inner loop shortens the slice and keeps it at 1 or more;
\* the loop ends on a slice that fits or has length 1, and the part it cuts
\* off makes the remaining token shorter
ForceSplitProgress ==
    /\ (spc = "inner" /\ spc' = "inner") => (sliceLen' < sliceLen /\ sliceLen' >= 1)
    /\ (spc = "inner" /\ spc' = "outer") =>
          /\ sliceLen = 1 \/ utf8Bytes(Take(token, sliceLen)) <= callMaxBytes
          /\ StrLen(token') < StrLen(token)

\* C7: splitToByteSafeParts terminates on every text and every budget >= 1;
\* each force-split iteration removes at least one character from the
\* remaining token, and the inner 20% shrink loop stops at a fitting slice or
\* at length 1.
C7_Terminates == [][ForceSplitProgress]_vars /\ <>(spc = "done")

\* the function has returned after force-splitting a word longer than the budget
C7_Witness ==
    /\ spc = "done"
    /\ Len(out) >= 2
    /\ \E w \in Range(Words(callText)) :
          /\ utf8Bytes(w) > callMaxBytes
          /\ StrLen(w) >= 7

-----------------------------------------------------------------------------
(* render-chapter/route.ts: the SSML chunker *)

MaxWordsPerSentence == 28

SubSplitBytes == 1200

SsmlBudget == 4800

Period == Str(".", 1)

\* strips the closing quotes a token ends with
RECURSIVE StripClosers(_)
StripClosers(tok) ==
    IF tok # <<>> /\ tok[Len(tok)].ch = "q" THEN StripClosers(SubSeq(tok, 1, Len(tok) - 1))
    ELSE tok

\* /[.!?]["')\]]*$/.test(tok)
hasBoundary(tok) ==
    LET core == StripClosers(tok)
    IN  core # <<>> /\ IsTerminator(core[Len(core)].ch)

\* the tokens pushed to out: a "." after every run of maxWords tokens without boundary
RECURSIVE BoundedTokens(_, _, _)
BoundedTokens(tokens, wordsSinceBoundary, maxWords) ==
    IF tokens = <<>> THEN <<>>
    ELSE IF hasBoundary(Head(tokens))
         THEN <<Head(tokens)>> \o BoundedTokens(Tail(tokens), 0, maxWords)
    ELSE IF wordsSinceBoundary + 1 >= maxWords
         THEN <<Head(tokens), Period>> \o BoundedTokens(Tail(tokens), 0, maxWords)
    ELSE <<Head(tokens)>> \o BoundedTokens(Tail(tokens), wordsSinceBoundary + 1, maxWords)

\* out.join(" ").replace(/\s+([.!?,;:])/g, "$1"): no space is left before a
\* token that starts with punctuation
RECURSIVE JoinTokens(_)
JoinTokens(tokens) ==
    IF tokens = <<>> THEN <<>>
    ELSE IF Len(tokens) = 1 THEN tokens[1]
    ELSE LET rest == JoinTokens(Tail(tokens))
         IN  IF IsTerminator(rest[1].ch) THEN Cat(tokens[1], rest)
             ELSE CatAll(<<tokens[1], Space, rest>>)

forceSentenceBoundaries(text, maxWordsPerSentence) ==
    Trim(JoinTokens(BoundedTokens(Words(text), 0, maxWordsPerSentence)))

EscapeChar(c) == IF c = "q" THEN "&quot;" ELSE c

\* the model's texts hold no &, <, > or apostrophe
escapeSsmlText(text) == [i \in 1..Len(text) |-> Run(EscapeChar(text[i].ch), text[i].n)]

Tag(name) == Str(name, 1)

\* the <s> elements of one paragraph
SentenceBits(p) ==
    LET parts == SplitSentencesFrom(forceSentenceBoundaries(p, MaxWordsPerSentence), <<>>)
        kept == NonEmpty([i \in 1..Len(parts) |-> Trim(parts[i])])
    IN  CatAll([i \in 1..Len(kept) |->
                  CatAll(<<Tag("<s>"), escapeSsmlText(kept[i]), Tag("</s>")>>)])

ParagraphSsml(p) ==
    IF SentenceBits(p) # <<>> THEN CatAll(<<Tag("<p>"), SentenceBits(p), Tag("</p>")>>)
    ELSE <<>>

RECURSIVE JoinWithBreaks(_)
JoinWithBreaks(ps) ==
    IF ps = <<>> THEN <<>>
    ELSE IF Len(ps) = 1 THEN ps[1]
    ELSE ps[1] \o Tag("<break time=\"250ms\"/>") \o JoinWithBreaks(Tail(ps))

buildSsmlFromParagraphs(paragraphs) ==
    LET paraSsml == NonEmpty([i \in 1..Len(paragraphs) |-> ParagraphSsml(paragraphs[i])])
    IN  Tag("<speak>") \o JoinWithBreaks(paraSsml) \o Tag("</speak>")


\* the atoms of one paragraph: the normalized paragraph if its SSML fits, else
\* its parts of at most SubSplitBytes bytes of raw text
AtomsOf(p, maxSsmlBytes) ==
    LET normalized == forceSentenceBoundaries(p, MaxWordsPerSentence)
        splitParts == splitToByteSafeParts(normalized, SubSplitBytes)
    IN  IF normalized = <<>> THEN <<>>
        ELSE IF utf8Bytes(buildSsmlFromParagraphs(<<normalized>>)) <= maxSsmlBytes
             THEN <<normalized>>
        ELSE NonEmpty([i \in 1..Len(splitParts) |-> Trim(splitParts[i])])

atomParagraphs(text, maxSsmlBytes) ==
    LET ps == Paragraphs(text)
    IN  Flatten([i \in 1..Len(ps) |-> AtomsOf(ps[i], maxSsmlBytes)])

\* flush(): the SSML of the current paragraphs becomes a chunk
Flush(st, maxSsmlBytes) ==
    IF st.curParagraphs = <<>> THEN st
    ELSE IF utf8Bytes(buildSsmlFromParagraphs(st.curParagraphs)) > maxSsmlBytes
         THEN [st EXCEPT !.thrown = TRUE]
    ELSE [st EXCEPT !.chunks = Append(st.chunks, buildSsmlFromParagraphs(st.curParagraphs)),
                    !.curParagraphs = <<>>]

\* one iteration of the packing loop
AddAtom(st, p, maxSsmlBytes) ==
    IF utf8Bytes(buildSsmlFromParagraphs(Append(st.curParagraphs, p))) <= maxSsmlBytes
    THEN [st EXCEPT !.curParagraphs = Append(st.curParagraphs, p)]
    ELSE IF Flush(st, maxSsmlBytes).thrown THEN Flush(st, maxSsmlBytes)
    ELSE IF utf8Bytes(buildSsmlFromParagraphs(<<p>>)) > maxSsmlBytes
         THEN [Flush(st, maxSsmlBytes) EXCEPT !.thrown = TRUE, !.curParagraphs = <<p>>]
    ELSE [Flush(st, maxSsmlBytes) EXCEPT !.curParagraphs = <<p>>]

RECURSIVE AddAtoms(_, _, _)
AddAtoms(st, atoms, maxSsmlBytes) ==
    IF atoms = <<>> \/ st.thrown THEN st
    ELSE AddAtoms(AddAtom(st, Head(atoms), maxSsmlBytes), Tail(atoms), maxSsmlBytes)

\* the result: the chunks, or thrown = TRUE for an "Internal chunking error"
chunkTextToSsml(text, maxSsmlBytes) ==
    LET packed == AddAtoms([curParagraphs |-> <<>>, chunks |-> <<>>, thrown |-> FALSE],
                           atomParagraphs(text, maxSsmlBytes), maxSsmlBytes)
    IN  IF packed.thrown THEN packed ELSE Flush(packed, maxSsmlBytes)

-----------------------------------------------------------------------------
(* Calls chunkTextToSsml(finalText, 4800) of the render route, on texts of  *)
(* at most MaxSsmlRuns runs: letters and quotes, alone or in long runs,    *)
(* periods, spaces and blank lines.                                        *)

MaxSsmlRuns == 5

SsmlRunKinds ==
    {Run("a", 1), Run("a", 2400), Run("b", 2400), Run("q", 1), Run("q", 1200),
     Run(".", 1), Run(" ", 1), Run("\n", 2)}

RECURSIVE SsmlTextsUpTo(_)
SsmlTextsUpTo(k) ==
    IF k = 0 THEN {<<>>}
    ELSE LET shorter == SsmlTextsUpTo(k - 1)
         IN  shorter \cup
             {Append(x[1], x[2]) : x \in {y \in shorter \X SsmlRunKinds : Follows(y[1], y[2])}}

SsmlTexts == SsmlTextsUpTo(MaxSsmlRuns)

InitSsml ==
    /\ DetectStart
    /\ RestIdle
    /\ SplitIdle
    /\ cpc = "ready"
    /\ callText \in SsmlTexts
    /\ callMaxBytes = SsmlBudget
    /\ chunks = <<>>

\* const chunks = chunkTextToSsml(finalText, 4800), or the error it throws
ChunkTextToSsml ==
    /\ cpc = "ready"
    /\ LET r == chunkTextToSsml(callText, callMaxBytes)
       IN  /\ chunks' = r.chunks
           /\ cpc' = IF r.thrown THEN "thrown" ELSE "done"
    /\ UNCHANGED <<restVars, detectVars, callText, callMaxBytes, splitVars>>

NextSsml == ChunkTextToSsml

SpecSsml == InitSsml /\ [][NextSsml]_vars

-----------------------------------------------------------------------------
(* Properties of chunkTextToSsml *)

\* C4: for every chapter text chunkTextToSsml(text, 4800) raises no internal
\* chunking error, and every chunk is at most 4800 bytes of tagged, escaped SSML.
C4_NoChunkingError ==
    /\ cpc # "thrown"
    /\ cpc = "done" => \A i \in 1..Len(chunks) : EncodedSize(chunks[i]) <= SsmlBudget

\* the characters a chunk speaks: its markup without the tags, unescaped
IsTag(c) == c \in {"<speak>", "</speak>", "<p>", "</p>", "<s>", "</s>", "<break time=\"250ms\"/>"}

UnescapeChar(c) == IF c = "&quot;" THEN "q" ELSE c

RECURSIVE Spoken(_)
Spoken(chunk) ==
    IF chunk = <<>> THEN <<>>
    ELSE IF IsTag(chunk[1].ch) THEN Spoken(Tail(chunk))
    ELSE Cat(<<Run(UnescapeChar(chunk[1].ch), chunk[1].n)>>, Spoken(Tail(chunk)))

\* string x occurs in string s, both without whitespace
OccursAt(x, s, k) ==
    /\ k + Len(x) - 1 <= Len(s)
    /\ \A j \in 1..Len(x) :
           /\ x[j].ch = s[k + j - 1].ch
           /\ IF 1 < j /\ j < Len(x) THEN x[j].n = s[k + j - 1].n
                                     ELSE x[j].n <= s[k + j - 1].n

OccursIn(x, s) == \E k \in 1..Len(s) : OccursAt(x, s, k)

\* the sentences of the text whose own tagged markup fits the budget
FittingSentences ==
    LET ps == Paragraphs(callText)
        all == Flatten([i \in 1..Len(ps) |->
                          Sentences(forceSentenceBoundaries(ps[i], MaxWordsPerSentence))])
    IN  {x \in Range(all) : EncodedSize(buildSsmlFromParagraphs(<<x>>)) <= SsmlBudget}

\* C6: a sentence whose own tagged markup fits in 4800 bytes is emitted whole
\* inside one chunk, also when its paragraph exceeds the budget: some chunk
\* speaks all the characters of the sentence.
C6_SentenceWhole ==
    cpc = "done" =>
        \A x \in FittingSentences :
            \E i \in 1..Len(chunks) : OccursIn(Squeeze(x), Squeeze(Spoken(chunks[i])))

-----------------------------------------------------------------------------
(* lib/doc-type.ts: inferDocType.  A page text is a sequence of lines, a    *)
(* line a sequence of words, as in chapter detection.                      *)

\* the keys of the scores object, in the order they are created
DocTypeOrder == <<"book", "report", "paper", "slides", "manual">>

HeadPageCount == 5

headPages(pages) == SubSeq(pages, 1, Min(HeadPageCount, Len(pages)))

\* pages.find((p) => p.pageNumber === tocPageNumber), or no page
tocPageText(pages, tocPageNumber) ==
    LET hits == {i \in 1..Len(pages) : tocPageNumber # 0 /\ pages[i].pageNumber = tocPageNumber}
    IN  IF hits = {} THEN <<>>
        ELSE pages[CHOOSE i \in hits : \A j \in hits : i <= j].text

\* the lines of `sample`: the head pages' texts, then the TOC page's text
sampleLines(pages, tocPageNumber) ==
    Flatten([i \in 1..Len(headPages(pages)) |-> headPages(pages)[i].text])
        \o tocPageText(pages, tocPageNumber)

\* countMatches(text, /\bw1\b|\bw2\b.../g) on the lower-cased sample
countWords(lineSeq, ws) ==
    SumSeq([i \in 1..Len(lineSeq) |->
              Cardinality({j \in 1..Len(lineSeq[i]) : Lower(lineSeq[i][j]) \in ws})])

\* countMatches of a phrase whose words are separated by one space
countPhrase(lineSeq, phrase) ==
    SumSeq([i \in 1..Len(lineSeq) |->
              Cardinality({j \in 1..(Len(lineSeq[i]) - Len(phrase) + 1) :
                  \A k \in 1..Len(phrase) : Lower(lineSeq[i][j + k - 1]) = phrase[k]})])

\* countMatches(text, /\bstep\s+\d+\b/g): the whitespace may be a line break
countStepNumber(lineSeq) ==
    LET ws == Flatten(lineSeq)
    IN  Cardinality({j \in 1..(Len(ws) - 1) : Lower(ws[j]) = "step" /\ IsNum(ws[j + 1])})

\* variant: wordsPerPage < 90 alone
FewWordsPerPageOrNone(pages) ==
    LET head == headPages(pages)
        total == SumSeq([i \in 1..Len(head) |-> Len(Flatten(head[i].text))])
    IN  total < 90 * Len(head) \/ Len(head) = 0

\* wordsPerPage > 0 && wordsPerPage < 90
FewWordsPerPage(pages) ==
    LET head == headPages(pages)
        total == SumSeq([i \in 1..Len(head) |-> Len(Flatten(head[i].text))])
    IN  Len(head) > 0 /\ total > 0 /\ total < 90 * Len(head)

\* shortLineRatio > 0.45
ManyShortLines(lineSeq) ==
    /\ lineSeq # <<>>
    /\ Cardinality({i \in 1..Len(lineSeq) : Len(lineSeq[i]) <= 6}) * 100 > 45 * Len(lineSeq)

\* countMatches(sample, /^[ \t]*[-*...]/gm)
bulletCount(lineSeq) == Cardinality({i \in 1..Len(lineSeq) : lineSeq[i][1] = "-"})

docTypeScores(pages, tocPageNumber) ==
    LET lineSeq == sampleLines(pages, tocPageNumber)
    IN  [book   |-> countPhrase(lineSeq, <<"table", "of", "contents">>) * 3
                      + countWords(lineSeq, {"contents"})
                      + countWords(lineSeq, {"chapter"}) * 2
                      + countWords(lineSeq, {"prologue", "epilogue"}) * 2,
         paper  |-> countWords(lineSeq, {"abstract"}) * 3
                      + countWords(lineSeq, {"references", "bibliography"}) * 2
                      + countWords(lineSeq, {"introduction", "methodology", "results", "discussion"}),
         report |-> countPhrase(lineSeq, <<"executive", "summary">>) * 3
                      + countWords(lineSeq, {"findings", "recommendations", "conclusion"}) * 2,
         manual |-> countWords(lineSeq, {"installation", "setup", "troubleshooting", "warning"}) * 2
                      + countStepNumber(lineSeq) * 2,
         slides |-> (IF FewWordsPerPage(pages) THEN 3 ELSE 0)
                      + (IF ManyShortLines(lineSeq) THEN 2 ELSE 0)
                      + (IF bulletCount(lineSeq) >= 8 THEN 2 ELSE 0)]

\* variant: an entry goes in front of the entries of the same score
InsertBeforeEqual(sorted, e) ==
    LET before == {i \in 1..Len(sorted) : sorted[i][2] > e[2]}
        k == Cardinality(before)
    IN  SubSeq(sorted, 1, k) \o <<e>> \o SubSeq(sorted, k + 1, Len(sorted))

\* a stable sort by descending score: an entry goes behind the entries already
\* placed whose score is at least its own
InsertStable(sorted, e) ==
    LET before == {i \in 1..Len(sorted) : sorted[i][2] >= e[2]}
        k == Cardinality(before)
    IN  SubSeq(sorted, 1, k) \o <<e>> \o SubSeq(sorted, k + 1, Len(sorted))

RECURSIVE SortEntries(_, _)
SortEntries(entries, sorted) ==
    IF entries = <<>> THEN sorted
    ELSE SortEntries(Tail(entries), InsertStable(sorted, Head(entries)))

\* Object.entries(scores).sort((a, b) => b[1] - a[1])
orderedEntries(scores) ==
    SortEntries([i \in 1..Len(DocTypeOrder) |-> <<DocTypeOrder[i], scores[DocTypeOrder[i]]>>], <<>>)

UnknownBelow == 2

inferDocType(pages, tocPageNumber) ==
    LET scores == docTypeScores(pages, tocPageNumber)
        best == orderedEntries(scores)[1]
    IN  IF best[2] < UnknownBelow THEN [docType |-> "unknown", scores |-> scores]
        ELSE [docType |-> best[1], scores |-> scores]

-----------------------------------------------------------------------------
(* Calls of inferDocType: one page made of an optional body of 96 words in  *)
(* 12 lines, an optional list of 8 bullets and up to MaxKeywordLines lines  *)
(* with the words the scores count, alone or as page 6 behind five pages   *)
(* of body text; the page is the TOC page or there is none.  A call with   *)
(* no page at all is included.                                             *)

MaxKeywordLines == 2

LnLong == <<"the", "quick", "fox", "the", "quick", "fox", "the", "quick">>

LnBullet == <<"-", "fox">>

KeywordLines ==
    {<<"Chapter">>, <<"CONTENTS">>, <<"TABLE", "OF", "CONTENTS">>, <<"prologue">>,
     <<"abstract">>, <<"references">>, <<"Results">>,
     <<"executive", "summary">>, <<"findings">>,
     <<"setup">>, <<"step", "1">>}

KeywordTexts == UNION {[1..n -> KeywordLines] : n \in 0..MaxKeywordLines}

DocTypeTexts ==
    {(IF body THEN [i \in 1..12 |-> LnLong] ELSE <<>>)
        \o (IF bullets THEN [i \in 1..8 |-> LnBullet] ELSE <<>>) \o kw :
            body \in BOOLEAN, bullets \in BOOLEAN, kw \in KeywordTexts}

DocTypePages ==
    {<<>>}
        \cup {<<[pageNumber |-> 1, text |-> t]>> : t \in DocTypeTexts}
        \cup {[i \in 1..6 |-> [pageNumber |-> i,
                               text |-> IF i = 6 THEN <<kw>> ELSE [j \in 1..12 |-> LnLong]]] :
                  kw \in KeywordLines}

InitDocType ==
    /\ DetectStart
    /\ ChunkIdle
    /\ SplitIdle
    /\ RenderIdle
    /\ StoreIdle
    /\ CleanIdle
    /\ ExtractIdle
    /\ PageStart
    /\ dpc = "ready"
    /\ dtPages \in DocTypePages
    /\ dtTocPage \in {0, Len(dtPages)}
    /\ docTypeInfo = NoDocTypeInfo

\* const docTypeInfo = inferDocType(pages, { tocPageNumber })
InferDocType ==
    /\ dpc = "ready"
    /\ docTypeInfo' = inferDocType(dtPages, dtTocPage)
    /\ dpc' = "done"
    /\ UNCHANGED <<detectVars, chunkVars, splitVars, renderVars, storeVars, cleanVars, extractVars, pageVars, dtPages, dtTocPage>>

NextDocType == InferDocType

SpecDocType == InitDocType /\ [][NextDocType]_vars

-----------------------------------------------------------------------------
(* Properties of inferDocType *)

MaxScore(scores) ==
    CHOOSE m \in {scores[DocTypeOrder[i]] : i \in 1..5} :
        \A i \in 1..5 : scores[DocTypeOrder[i]] <= m

\* the archetypes that hold the score m, as positions in the fixed order
Holders(scores, m) == {i \in 1..5 : scores[DocTypeOrder[i]] = m}

\* C14: inferDocType returns "unknown" if and only if the maximum archetype
\* score is below 2; otherwise it returns an archetype of maximal score, the
\* earliest in the order book, report, paper, slides, manual among those tied.
C14_DocTypeChoice ==
    dpc = "done" =>
        LET scores == docTypeInfo.scores
            m == MaxScore(scores)
        IN  /\ docTypeInfo.docType = "unknown" <=> m < 2
            /\ m >= 2 =>
                  \E i \in Holders(scores, m) :
                      /\ docTypeInfo.docType = <<"book", "report", "paper", "slides", "manual">>[i]
                      /\ \A j \in Holders(scores, m) : i <= j

\* two archetypes tied at a maximum of 2 or more, the earlier one returned
C14_Witness ==
    /\ dpc = "done"
    /\ MaxScore(docTypeInfo.scores) >= 2
    /\ Cardinality(Holders(docTypeInfo.scores, MaxScore(docTypeInfo.scores))) >= 2
    /\ docTypeInfo.docType = "report"

-----------------------------------------------------------------------------
(* render-chapter/route.ts: POST and synthesizeWithRetry, one request.  A   *)
(* chunk is its number in the list chunkTextToSsml returns; the audio a    *)
(* call returns is the record of the chunk and the attempt that gave it.   *)
(* The 5000-byte test of a chunk never fires: chunkTextToSsml returns no   *)
(* chunk over 4800 bytes.                                                  *)

MaxChunks == 2

Tries == 3

BackoffStepMs == 350

CacheKinds == {"absent", "unreadable", "invalidJson", "noPagesArray", "pages"}

InitRender ==
    /\ DetectStart
    /\ ChunkIdle
    /\ SplitIdle
    /\ DocTypeIdle
    /\ StoreIdle
    /\ CleanIdle
    /\ ExtractIdle
    /\ PageStart
    /\ rpc = "parse"
    /\ inputsOk \in BOOLEAN
    /\ extractedUrl \in CacheKinds
    /\ renderPages = "null"
    /\ ssmlChunks = <<>>
    /\ chunkIdx = 0
    /\ tryIdx = 0
    /\ lastErr = 0
    /\ mp3Parts = <<>>
    /\ events = <<>>
    /\ blobs = {}
    /\ response = 0
    /\ errorBody = NoErrorBody

Event(ev, chunk, attempt, ms) == [ev |-> ev, chunk |-> chunk, attempt |-> attempt, ms |-> ms]

\* the catch of POST: the error becomes a 500 response with the error's message
Fail(message) ==
    /\ rpc' = "failed"
    /\ response' = 500
    /\ errorBody' = ErrorBody(message)

\* missing or invalid inputs are answered with 400
RenderParse ==
    /\ rpc = "parse"
    /\ IF inputsOk
       THEN rpc' = "read-cache" /\ UNCHANGED <<response, errorBody>>
       ELSE rpc' = "done" /\ response' = 400 /\ errorBody' = ErrorBody("Missing/invalid inputs")
    /\ UNCHANGED <<inputsOk, extractedUrl, renderPages, ssmlChunks, chunkIdx, tryIdx, lastErr,
                   mp3Parts, events, blobs>>
    /\ UNCHANGED <<detectVars, chunkVars, splitVars, docTypeVars, storeVars, cleanVars, extractVars, pageVars>>

\* the cache is read when extractedUrl is a non-empty string; a failed fetch or
\* parse is caught and logged; pages stays null without a pages array
ReadCache ==
    /\ rpc = "read-cache"
    /\ renderPages' = IF extractedUrl = "pages" THEN "cached" ELSE "null"
    /\ rpc' = "extract"
    /\ UNCHANGED <<inputsOk, extractedUrl, ssmlChunks, chunkIdx, tryIdx, lastErr, mp3Parts,
                   events, blobs, response, errorBody>>
    /\ UNCHANGED <<detectVars, chunkVars, splitVars, docTypeVars, storeVars, cleanVars, extractVars, pageVars>>

\* if (!pages): the PDF is fetched and extracted again, which may throw
ExtractAgain ==
    /\ rpc = "extract"
    /\ IF renderPages = "null"
       THEN \/ renderPages' = "extracted" /\ rpc' = "chunk" /\ UNCHANGED <<response, errorBody>>
            \/ Fail("Failed to extract PDF pages") /\ UNCHANGED renderPages
       ELSE rpc' = "chunk" /\ UNCHANGED <<renderPages, response, errorBody>>
    /\ UNCHANGED <<inputsOk, extractedUrl, ssmlChunks, chunkIdx, tryIdx, lastErr, mp3Parts,
                   events, blobs>>
    /\ UNCHANGED <<detectVars, chunkVars, splitVars, docTypeVars, storeVars, cleanVars, extractVars, pageVars>>

\* the text is built and chunked; a text over 200000 characters and a chunking
\* error throw
ChunkFinalText ==
    /\ rpc = "chunk"
    /\ \/ \E n \in 0..MaxChunks :
             /\ ssmlChunks' = [k \in 1..n |-> k]
             /\ chunkIdx' = 1
             /\ rpc' = "loop"
             /\ UNCHANGED <<response, errorBody>>
       \/ Fail("Chapter is too long to render in one pass") /\ UNCHANGED <<ssmlChunks, chunkIdx>>
    /\ UNCHANGED <<inputsOk, extractedUrl, renderPages, tryIdx, lastErr, mp3Parts, events, blobs>>
    /\ UNCHANGED <<detectVars, chunkVars, splitVars, docTypeVars, storeVars, cleanVars, extractVars, pageVars>>

\* for (const ssml of chunks): the next chunk enters synthesizeWithRetry, or the
\* loop is over
NextSsmlChunk ==
    /\ rpc = "loop"
    /\ IF chunkIdx <= Len(ssmlChunks)
       THEN rpc' = "call" /\ tryIdx' = 0 /\ lastErr' = 0
       ELSE rpc' = "store" /\ UNCHANGED <<tryIdx, lastErr>>
    /\ UNCHANGED <<inputsOk, extractedUrl, renderPages, ssmlChunks, chunkIdx, mp3Parts, events,
                   blobs, response, errorBody>>
    /\ UNCHANGED <<detectVars, chunkVars, splitVars, docTypeVars, storeVars, cleanVars, extractVars, pageVars>>

\* for (let i = 0; i < tries; i++) ... throw lastErr
CallSynthesize ==
    /\ rpc = "call"
    /\ IF tryIdx < Tries
       THEN /\ events' = Append(events, Event("call", ssmlChunks[chunkIdx], tryIdx + 1, 0))
            /\ rpc' = "await"
            /\ UNCHANGED <<response, errorBody>>
       ELSE /\ events' = Append(events, Event("throw", ssmlChunks[chunkIdx], lastErr, 0))
            /\ Fail("synthesizeSpeech failed")
    /\ UNCHANGED <<inputsOk, extractedUrl, renderPages, ssmlChunks, chunkIdx, tryIdx, lastErr,
                   mp3Parts, blobs>>
    /\ UNCHANGED <<detectVars, chunkVars, splitVars, docTypeVars, storeVars, cleanVars, extractVars, pageVars>>

\* variant: the buffer goes in front of the ones pushed before
PushPartInFront(parts, buf) == <<buf>> \o parts

\* mp3Parts.push(buf)
PushPart(parts, buf) == Append(parts, buf)

\* variant: a response without audio is skipped
NoAudioReturnedSkips ==
    /\ chunkIdx' = chunkIdx + 1
    /\ rpc' = "loop"
    /\ UNCHANGED <<response, errorBody>>

\* if (!resp.audioContent) throw new Error("No audio returned from Google TTS")
NoAudioReturned ==
    /\ Fail("No audio returned from Google TTS")
    /\ UNCHANGED chunkIdx

\* client.synthesizeSpeech returns a response with audio or without, or throws
SynthesizeReturns ==
    /\ rpc = "await"
    /\ \/ /\ events' = Append(events, Event("audio", ssmlChunks[chunkIdx], tryIdx + 1, 0))
          /\ mp3Parts' = PushPart(mp3Parts, [chunk |-> ssmlChunks[chunkIdx], attempt |-> tryIdx + 1])
          /\ chunkIdx' = chunkIdx + 1
          /\ rpc' = "loop"
          /\ UNCHANGED <<lastErr, response, errorBody>>
       \/ /\ events' = Append(events, Event("noAudio", ssmlChunks[chunkIdx], tryIdx + 1, 0))
          /\ NoAudioReturned
          /\ UNCHANGED <<mp3Parts, lastErr>>
       \/ /\ events' = Append(events, Event("error", ssmlChunks[chunkIdx], tryIdx + 1, 0))
          /\ lastErr' = tryIdx + 1
          /\ rpc' = "wait"
          /\ UNCHANGED <<mp3Parts, chunkIdx, response, errorBody>>
    /\ UNCHANGED <<inputsOk, extractedUrl, renderPages, ssmlChunks, tryIdx, blobs>>
    /\ UNCHANGED <<detectVars, chunkVars, splitVars, docTypeVars, storeVars, cleanVars, extractVars, pageVars>>

\* variant: the same wait after every failure
BackoffMsFlat(i) == BackoffStepMs

\* 350 * (i + 1)
BackoffMs(i) == BackoffStepMs * (i + 1)

\* await new Promise((r) => setTimeout(r, 350 * (i + 1))); i++
Backoff ==
    /\ rpc = "wait"
    /\ events' = Append(events, Event("wait", ssmlChunks[chunkIdx], tryIdx + 1, BackoffMs(tryIdx)))
    /\ tryIdx' = tryIdx + 1
    /\ rpc' = "call"
    /\ UNCHANGED <<inputsOk, extractedUrl, renderPages, ssmlChunks, chunkIdx, lastErr, mp3Parts,
                   blobs, response, errorBody>>
    /\ UNCHANGED <<detectVars, chunkVars, splitVars, docTypeVars, storeVars, cleanVars, extractVars, pageVars>>

\* Buffer.concat(mp3Parts) is put into the store, which may throw
PutAudio ==
    /\ rpc = "store"
    /\ \/ /\ blobs' = blobs \cup {[kind |-> "chapter-audio", body |-> mp3Parts]}
          /\ rpc' = "done"
          /\ response' = 200
          /\ UNCHANGED errorBody
       \/ Fail("put failed") /\ UNCHANGED blobs
    /\ UNCHANGED <<inputsOk, extractedUrl, renderPages, ssmlChunks, chunkIdx, tryIdx, lastErr,
                   mp3Parts, events>>
    /\ UNCHANGED <<detectVars, chunkVars, splitVars, docTypeVars, storeVars, cleanVars, extractVars, pageVars>>

NextRender ==
    \/ RenderParse
    \/ ReadCache
    \/ ExtractAgain
    \/ ChunkFinalText
    \/ NextSsmlChunk
    \/ CallSynthesize
    \/ SynthesizeReturns
    \/ Backoff
    \/ PutAudio

SpecRender == InitRender /\ [][NextRender]_vars

-----------------------------------------------------------------------------
(* Properties of a chapter render *)

EventsOf(ev, c) == {k \in 1..Len(events) : events[k].ev = ev /\ events[k].chunk = c}

Returns == {"audio", "noAudio", "error"}

\* C15: synthesizeWithRetry calls the synthesis at most 3 times for a chunk,
\* makes no further attempt after a response, throws the last error only after
\* 3 failures in a row, and waits 350 ms x k after failed attempt k.
C15_RetryPolicy ==
    /\ \A c \in 1..Len(ssmlChunks) : Cardinality(EventsOf("call", c)) <= 3
    /\ \A k \in 1..Len(events) :
          /\ events[k].ev \in {"audio", "noAudio"} =>
                \A j \in (k + 1)..Len(events) : events[j].chunk # events[k].chunk
          /\ events[k].ev = "throw" =>
                /\ Cardinality(EventsOf("error", events[k].chunk)) = 3
                /\ Cardinality(EventsOf("call", events[k].chunk)) = 3
                /\ EventsOf("audio", events[k].chunk) = {}
                /\ events[k].attempt = 3
          /\ events[k].ev = "wait" =>
                /\ k > 1
                /\ events[k - 1].ev = "error"
                /\ events[k - 1].chunk = events[k].chunk
                /\ events[k].ms = 350 * events[k - 1].attempt
          /\ (events[k].ev = "error" /\ k < Len(events)) => events[k + 1].ev = "wait"

\* the first chunk got its audio at the second attempt, the second chunk failed
\* three times
C15_Witness ==
    /\ rpc = "failed"
    /\ \E k \in EventsOf("audio", 1) : events[k].attempt = 2
    /\ EventsOf("throw", 2) # {}

\* C16: the chapter audio is put into the store only after every chunk was
\* synthesized; when a chunk exhausts its retries or comes back without audio
\* the render ends with an error, no later chunk is dispatched and nothing is
\* stored.
C16_AllOrNothing ==
    /\ blobs # {} =>
          /\ response = 200
          /\ \A c \in 1..Len(ssmlChunks) : EventsOf("audio", ssmlChunks[c]) # {}
    /\ \A k \in 1..Len(events) :
          events[k].ev \in {"throw", "noAudio"} =>
              /\ k = Len(events)
              /\ rpc = "failed"
              /\ response = 500
              /\ blobs = {}

\* the first of two chunks came back without audio
C16_Witness ==
    /\ rpc = "failed"
    /\ Len(ssmlChunks) = 2
    /\ EventsOf("noAudio", 1) # {}

\* C17: the synthesis calls are issued one at a time and in chunk order, the
\* call for a chunk only after the previous chunk's call returned audio, and
\* the stored audio is the returned buffers in chunk order.
C17_SequentialInOrder ==
    /\ \A k \in 1..Len(events) :
          events[k].ev = "call" =>
              /\ IF events[k].attempt = 1
                 THEN IF events[k].chunk = 1 THEN k = 1
                      ELSE /\ k > 1
                           /\ events[k - 1].ev = "audio"
                           /\ events[k - 1].chunk = events[k].chunk - 1
                 ELSE /\ k > 1
                      /\ events[k - 1].ev = "wait"
                      /\ events[k - 1].chunk = events[k].chunk
              /\ k < Len(events) =>
                    /\ events[k + 1].ev \in Returns
                    /\ events[k + 1].chunk = events[k].chunk
                    /\ events[k + 1].attempt = events[k].attempt
    /\ \A b \in blobs :
          /\ Len(b.body) = Len(ssmlChunks)
          /\ \A i \in 1..Len(b.body) :
                /\ b.body[i].chunk = ssmlChunks[i]
                /\ \E k \in EventsOf("audio", ssmlChunks[i]) : events[k].attempt = b.body[i].attempt

\* the audio of two chunks was stored, the second after a retry
C17_Witness ==
    /\ response = 200
    /\ Len(ssmlChunks) = 2
    /\ \E b \in blobs : Len(b.body) = 2 /\ b.body[2].attempt = 2

-----------------------------------------------------------------------------
(* Concurrent requests on the blob store: detection requests, which write   *)
(* the extraction cache, and render requests, which read it and write the  *)
(* chapter audio.  A document is its name; the pages and the audio of a    *)
(* document are named after it.  The chapters rendered have one title.  A  *)
(* put under a pathname that exists replaces the object or throws.         *)

MaxRequests == 2

MaxClock == 1

Reqs == 1..MaxRequests

DocIds == {"A", "B"}

Key(prefix, at, ch) == [prefix |-> prefix, at |-> at, ch |-> ch]

NoKey == Key("none", 0, 0)

\* `extracted/${Date.now()}-pages.json`
ExtractedKey(at) == Key("extracted", at, 0)

\* `chapters/${Date.now()}-ch${chapterIndex}-${safeTitle}.mp3`
ChapterKey(at, ch) == Key("chapters", at, ch)

\* an URL of no object, and an URL of a JSON object without a pages array
MissingUrl == Key("missing", 0, 0)
ForeignUrl == Key("foreign", 0, 0)

NewRequest(kind, pdf, ch) ==
    [kind |-> kind, pc |-> "start", pdf |-> pdf, chapterIndex |-> ch, extractedUrl |-> NoKey,
     key |-> NoKey, pages |-> "null", status |-> 0, failedAt |-> "none", putFailed |-> FALSE]

InitRequests ==
    /\ DetectStart
    /\ ChunkIdle
    /\ SplitIdle
    /\ DocTypeIdle
    /\ RenderIdle
    /\ CleanIdle
    /\ ExtractIdle
    /\ PageStart
    /\ reqs \in [Reqs -> {NewRequest("detect", d, 0) : d \in DocIds}
                            \cup {NewRequest("render", d, ch) : d \in DocIds, ch \in {1, 2}}]
    /\ now = 0
    /\ store = {}
    /\ writes = <<>>

Failed(q, at) == [q EXCEPT !.pc = "done", !.status = 500, !.failedAt = at]

\* put(pathname, body, { addRandomSuffix: false })
PutObject(obj) ==
    /\ store' = {o \in store : o.key # obj.key} \cup {obj}
    /\ writes' = Append(writes, [key |-> obj.key, by |-> obj.by])

Tick ==
    /\ now < MaxClock
    /\ now' = now + 1
    /\ UNCHANGED <<reqs, store, writes>>
    /\ UNCHANGED <<detectVars, chunkVars, splitVars, docTypeVars, renderVars, cleanVars, extractVars, pageVars>>

\* detectChapters: the PDF is fetched and its pages extracted, which may throw
DetectExtract(r) ==
    /\ reqs[r].kind = "detect" /\ reqs[r].pc = "start"
    /\ \/ reqs' = [reqs EXCEPT ![r] = [@ EXCEPT !.pages = reqs[r].pdf, !.pc = "key"]]
       \/ reqs' = [reqs EXCEPT ![r] = Failed(@, "extract")]
    /\ UNCHANGED <<now, store, writes>>
    /\ UNCHANGED <<detectVars, chunkVars, splitVars, docTypeVars, renderVars, cleanVars, extractVars, pageVars>>

\* the pathname of the cache object is built from Date.now()
DetectKey(r) ==
    /\ reqs[r].kind = "detect" /\ reqs[r].pc = "key"
    /\ reqs' = [reqs EXCEPT ![r] = [@ EXCEPT !.key = ExtractedKey(now), !.pc = "put"]]
    /\ UNCHANGED <<now, store, writes>>
    /\ UNCHANGED <<detectVars, chunkVars, splitVars, docTypeVars, renderVars, cleanVars, extractVars, pageVars>>

\* the cache object is put; a throw is caught and logged; the payload is returned
DetectPut(r) ==
    /\ reqs[r].kind = "detect" /\ reqs[r].pc = "put"
    /\ \/ /\ PutObject([key |-> reqs[r].key, holds |-> reqs[r].pages, by |-> r])
          /\ reqs' = [reqs EXCEPT ![r] =
                         [@ EXCEPT !.extractedUrl = reqs[r].key, !.pc = "done", !.status = 200]]
       \/ /\ reqs' = [reqs EXCEPT ![r] =
                         [@ EXCEPT !.putFailed = TRUE, !.pc = "done", !.status = 200]]
          /\ UNCHANGED <<store, writes>>
    /\ UNCHANGED now
    /\ UNCHANGED <<detectVars, chunkVars, splitVars, docTypeVars, renderVars, cleanVars, extractVars, pageVars>>

\* render POST: body.extractedUrl is absent, or the URL of some object or of none
RenderStart(r) ==
    /\ reqs[r].kind = "render" /\ reqs[r].pc = "start"
    /\ \E u \in {NoKey, MissingUrl, ForeignUrl} \cup {o.key : o \in store} :
          reqs' = [reqs EXCEPT ![r] = [@ EXCEPT !.extractedUrl = u, !.pc = "cache"]]
    /\ UNCHANGED <<now, store, writes>>
    /\ UNCHANGED <<detectVars, chunkVars, splitVars, docTypeVars, renderVars, cleanVars, extractVars, pageVars>>

\* the pages of the cache object, when it can be fetched, is JSON and has a
\* pages array
CachedPages(u) ==
    LET hits == {o \in store : o.key = u /\ o.key.prefix = "extracted"}
    IN  IF hits = {} THEN "null" ELSE (CHOOSE o \in hits : TRUE).holds

\* variant: an error of the cache read is not caught
RenderReadCacheUncaught(r) ==
    /\ reqs[r].kind = "render" /\ reqs[r].pc = "cache"
    /\ IF reqs[r].extractedUrl # NoKey /\ CachedPages(reqs[r].extractedUrl) = "null"
       THEN reqs' = [reqs EXCEPT ![r] = Failed(@, "cache")]
       ELSE reqs' = [reqs EXCEPT ![r] =
                        [@ EXCEPT !.pages = CachedPages(reqs[r].extractedUrl), !.pc = "extract"]]
    /\ UNCHANGED <<now, store, writes>>
    /\ UNCHANGED <<detectVars, chunkVars, splitVars, docTypeVars, renderVars, cleanVars, extractVars, pageVars>>

\* the cache is read inside try/catch; the fetch may fail for an object that exists
RenderReadCache(r) ==
    /\ reqs[r].kind = "render" /\ reqs[r].pc = "cache"
    /\ \E got \in {"null", CachedPages(reqs[r].extractedUrl)} :
          reqs' = [reqs EXCEPT ![r] = [@ EXCEPT !.pages = got, !.pc = "extract"]]
    /\ UNCHANGED <<now, store, writes>>
    /\ UNCHANGED <<detectVars, chunkVars, splitVars, docTypeVars, renderVars, cleanVars, extractVars, pageVars>>

\* if (!pages): the PDF is fetched and extracted, which may throw
RenderExtract(r) ==
    /\ reqs[r].kind = "render" /\ reqs[r].pc = "extract"
    /\ IF reqs[r].pages = "null"
       THEN \/ reqs' = [reqs EXCEPT ![r] = [@ EXCEPT !.pages = reqs[r].pdf, !.pc = "synth"]]
            \/ reqs' = [reqs EXCEPT ![r] = Failed(@, "extract")]
       ELSE reqs' = [reqs EXCEPT ![r] = [@ EXCEPT !.pc = "synth"]]
    /\ UNCHANGED <<now, store, writes>>
    /\ UNCHANGED <<detectVars, chunkVars, splitVars, docTypeVars, renderVars, cleanVars, extractVars, pageVars>>

\* the chunks are synthesized, or the render fails
RenderSynthesize(r) ==
    /\ reqs[r].kind = "render" /\ reqs[r].pc = "synth"
    /\ \/ reqs' = [reqs EXCEPT ![r] = [@ EXCEPT !.pc = "key"]]
       \/ reqs' = [reqs EXCEPT ![r] = Failed(@, "synthesize")]
    /\ UNCHANGED <<now, store, writes>>
    /\ UNCHANGED <<detectVars, chunkVars, splitVars, docTypeVars, renderVars, cleanVars, extractVars, pageVars>>

\* the pathname of the audio object is built from Date.now()
RenderKey(r) ==
    /\ reqs[r].kind = "render" /\ reqs[r].pc = "key"
    /\ reqs' = [reqs EXCEPT ![r] =
                   [@ EXCEPT !.key = ChapterKey(now, reqs[r].chapterIndex), !.pc = "put"]]
    /\ UNCHANGED <<now, store, writes>>
    /\ UNCHANGED <<detectVars, chunkVars, splitVars, docTypeVars, renderVars, cleanVars, extractVars, pageVars>>

\* the audio is put; a throw ends the render with an error
RenderPut(r) ==
    /\ reqs[r].kind = "render" /\ reqs[r].pc = "put"
    /\ \/ /\ PutObject([key |-> reqs[r].key, holds |-> reqs[r].pages, by |-> r])
          /\ reqs' = [reqs EXCEPT ![r] = [@ EXCEPT !.pc = "done", !.status = 200]]
       \/ /\ reqs' = [reqs EXCEPT ![r] = [Failed(@, "put") EXCEPT !.putFailed = TRUE]]
          /\ UNCHANGED <<store, writes>>
    /\ UNCHANGED now
    /\ UNCHANGED <<detectVars, chunkVars, splitVars, docTypeVars, renderVars, cleanVars, extractVars, pageVars>>

NextRequests ==
    \/ Tick
    \/ \E r \in Reqs : DetectExtract(r)
    \/ \E r \in Reqs : DetectKey(r)
    \/ \E r \in Reqs : DetectPut(r)
    \/ \E r \in Reqs : RenderStart(r)
    \/ \E r \in Reqs : RenderReadCache(r)
    \/ \E r \in Reqs : RenderExtract(r)
    \/ \E r \in Reqs : RenderSynthesize(r)
    \/ \E r \in Reqs : RenderKey(r)
    \/ \E r \in Reqs : RenderPut(r)

SpecRequests == InitRequests /\ [][NextRequests]_vars

-----------------------------------------------------------------------------
(* Properties of the requests on the store *)

\* the render request has passed the re-extraction
PastExtraction(q) == q.pc \in {"synth", "key", "put"} \/ (q.pc = "done" /\ q.failedAt \in {"none", "synthesize", "put"})

\* extractedUrl is absent or leads to no object with a pages array
NoUsableCache(q) == q.extractedUrl.prefix \in {"none", "missing", "foreign", "chapters"}

\* C18: a render never fails because of the extraction cache: with extractedUrl
\* absent, unreadable, not JSON or without a pages array it extracts the pages
\* of pdfUrl again and continues; and a detection whose cache write fails still
\* answers, with extractedUrl = null.
C18_CacheNotNeeded ==
    \A r \in DOMAIN reqs :
        /\ reqs[r].kind = "render" =>
              /\ reqs[r].failedAt # "cache"
              /\ PastExtraction(reqs[r]) => reqs[r].pages # "null"
              /\ (PastExtraction(reqs[r]) /\ NoUsableCache(reqs[r])) => reqs[r].pages = reqs[r].pdf
        /\ (reqs[r].kind = "detect" /\ reqs[r].putFailed) =>
              /\ reqs[r].status = 200
              /\ reqs[r].extractedUrl = [prefix |-> "none", at |-> 0, ch |-> 0]

\* a detection answered after its cache write failed, and a render given an URL
\* of no object stored its audio
C18_Witness ==
    /\ \E r \in DOMAIN reqs :
          reqs[r].kind = "detect" /\ reqs[r].pc = "done" /\ reqs[r].putFailed
    /\ \E r \in DOMAIN reqs :
          /\ reqs[r].kind = "render" /\ reqs[r].pc = "done" /\ reqs[r].status = 200
          /\ reqs[r].extractedUrl.prefix = "missing"

\* C19: whatever the interleaving and the clock readings, every object of the
\* store is written once, under a key no other request writes, and the object
\* an extractedUrl refers to holds the pages of the document of the detection
\* request that returned it.
C19_UniqueKeys ==
    /\ \A i, j \in 1..Len(writes) : i < j => writes[i].key # writes[j].key
    /\ \A r \in DOMAIN reqs :
          (reqs[r].kind = "detect" /\ reqs[r].pc = "done" /\ reqs[r].extractedUrl.prefix = "extracted") =>
              \E o \in store : o.key = reqs[r].extractedUrl /\ o.holds = reqs[r].pdf


-----------------------------------------------------------------------------
\* cleanTextForAudio (render-chapter/route.ts).  A text is a sequence of
\* one-character strings.  `Bullet` stands for any code point of the class
\* the code maps to "-"; the alphabet spells neither "page" nor one of the
\* abbreviations audiobookPolish expands, so those replacements never fire.

Bullet == "o"

IsWordCh(c) == c \in {"a", "1", "I", "t", "e", "m"}

IsDigitCh(c) == c = "1"

IsSpaceCh(c) == c \in {" ", "\n", "\r"}

IsMark(c) == c \in {"!", "?"}

\* t.replace(/\r\n/g, "\n").replace(/\r/g, "\n")
RECURSIVE normalizeLineEnds(_)
normalizeLineEnds(t) ==
    IF t = <<>> THEN <<>>
    ELSE IF t[1] = "\r" /\ Len(t) >= 2 /\ t[2] = "\n"
         THEN <<"\n">> \o normalizeLineEnds(SubSeq(t, 3, Len(t)))
    ELSE IF t[1] = "\r" THEN <<"\n">> \o normalizeLineEnds(Tail(t))
    ELSE <<t[1]>> \o normalizeLineEnds(Tail(t))

\* t.split("\n"): the lines of t, the empty ones included
RECURSIVE splitLines(_, _)
splitLines(t, line) ==
    IF t = <<>> THEN <<line>>
    ELSE IF t[1] = "\n" THEN <<line>> \o splitLines(Tail(t), <<>>)
    ELSE splitLines(Tail(t), Append(line, t[1]))

RECURSIVE trimLeft(_)
trimLeft(l) == IF l # <<>> /\ IsSpaceCh(l[1]) THEN trimLeft(Tail(l)) ELSE l

RECURSIVE trimRight(_)
trimRight(l) ==
    IF l # <<>> /\ IsSpaceCh(l[Len(l)]) THEN trimRight(SubSeq(l, 1, Len(l) - 1)) ELSE l

trim(l) == trimRight(trimLeft(l))

\* /^\d+$/
IsPageNumberLine(l) == l # <<>> /\ \A i \in DOMAIN l : IsDigitCh(l[i])

\* l && !/^\d+$/.test(l) && !/^page\s+\d+$/i.test(l)
KeepAudioLine(l) == l # <<>> /\ ~IsPageNumberLine(l)

MinHeaderLength == 12

MinHeaderRepeats == 3

HeaderShare == 5

CountLine(lines, l) == Cardinality({i \in DOMAIN lines : trim(lines[i]) = l})

stripLikelyHeaderFooterLines(lines) ==
    LET threshold == Max(MinHeaderRepeats, Len(lines) \div HeaderShare)
        bad(l) == /\ l # <<>>
                  /\ Len(l) >= MinHeaderLength
                  /\ CountLine(lines, l) >= threshold
        keep(ln) == ~bad(trim(ln))
    IN SelectSeq(lines, keep)

RECURSIVE mapTrim(_)
mapTrim(lines) ==
    IF lines = <<>> THEN <<>> ELSE <<trim(lines[1])>> \o mapTrim(Tail(lines))

\* lines.join("\n")
RECURSIVE joinLines(_)
joinLines(lines) ==
    IF lines = <<>> THEN <<>>
    ELSE IF Len(lines) = 1 THEN lines[1]
    ELSE lines[1] \o <<"\n">> \o joinLines(Tail(lines))

\* t.replace(/(\w)-\n(\w)/g, "$1$2"): the scan resumes after the second letter
RECURSIVE dehyphenate(_)
dehyphenate(t) ==
    IF t = <<>> THEN <<>>
    ELSE IF /\ Len(t) >= 4
            /\ IsWordCh(t[1]) /\ t[2] = "-" /\ t[3] = "\n" /\ IsWordCh(t[4])
         THEN <<t[1], t[4]>> \o dehyphenate(SubSeq(t, 5, Len(t)))
    ELSE <<t[1]>> \o dehyphenate(Tail(t))

\* the lengths of the longest prefixes of t made of newlines, of blanks and
\* of white space
RECURSIVE newlineRun(_)
newlineRun(t) == IF t # <<>> /\ t[1] = "\n" THEN 1 + newlineRun(Tail(t)) ELSE 0

IsBlank(c) == c \in {" ", "\t"}

RECURSIVE blankRun(_)
blankRun(t) == IF t # <<>> /\ IsBlank(t[1]) THEN 1 + blankRun(Tail(t)) ELSE 0

RECURSIVE spaceRun(_)
spaceRun(t) == IF t # <<>> /\ IsSpaceCh(t[1]) THEN 1 + spaceRun(Tail(t)) ELSE 0

\* t.replace(/\n{3,}/g, "\n\n")
RECURSIVE collapseBlankLines(_)
collapseBlankLines(t) ==
    IF t = <<>> THEN <<>>
    ELSE LET n == newlineRun(t)
         IN IF n >= 3 THEN <<"\n", "\n">> \o collapseBlankLines(SubSeq(t, n + 1, Len(t)))
            ELSE IF n >= 1 THEN SubSeq(t, 1, n) \o collapseBlankLines(SubSeq(t, n + 1, Len(t)))
            ELSE <<t[1]>> \o collapseBlankLines(Tail(t))


\* t.replace(/([^\n])\n([^\n])/g, "$1 $2"): a match takes the character on
\* each side of the newline, and the scan resumes after the second of them
RECURSIVE joinWrappedLines(_)
joinWrappedLines(t) ==
    IF t = <<>> THEN <<>>
    ELSE IF Len(t) >= 3 /\ t[1] # "\n" /\ t[2] = "\n" /\ t[3] # "\n"
         THEN <<t[1], " ", t[3]>> \o joinWrappedLines(SubSeq(t, 4, Len(t)))
    ELSE <<t[1]>> \o joinWrappedLines(Tail(t))

\* t.replace(/[bullets]/g, "-")
RECURSIVE bulletsToDashes(_)
bulletsToDashes(t) ==
    IF t = <<>> THEN <<>>
    ELSE <<IF t[1] = Bullet THEN "-" ELSE t[1]>> \o bulletsToDashes(Tail(t))

ItemPrefix == <<"I", "t", "e", "m", ":", " ">>

\* t.replace(/^\s*-\s+/gm, "Item: "): atStart says whether the scan stands at
\* the start of the text or right after a newline
RECURSIVE itemize(_, _)
itemize(t, atStart) ==
    IF t = <<>> THEN <<>>
    ELSE LET k == spaceRun(t)
             after == SubSeq(t, k + 2, Len(t))
             m == spaceRun(after)
         IN IF atStart /\ Len(t) >= k + 2 /\ t[k + 1] = "-" /\ m >= 1
            THEN ItemPrefix \o
                 itemize(SubSeq(after, m + 1, Len(after)), after[m] = "\n")
            ELSE <<t[1]>> \o itemize(Tail(t), t[1] = "\n")

\* t.replace(/[ \t]{2,}/g, " ")
RECURSIVE collapseBlanks(_)
collapseBlanks(t) ==
    IF t = <<>> THEN <<>>
    ELSE LET n == blankRun(t)
         IN IF n >= 2 THEN <<" ">> \o collapseBlanks(SubSeq(t, n + 1, Len(t)))
            ELSE <<t[1]>> \o collapseBlanks(Tail(t))

\* .replace(/([!?])\1+/g, "$1")
RECURSIVE collapseMarks(_)
collapseMarks(t) ==
    IF t = <<>> THEN <<>>
    ELSE IF IsMark(t[1]) /\ Len(t) >= 2 /\ t[2] = t[1]
         THEN collapseMarks(Tail(t))
    ELSE <<t[1]>> \o collapseMarks(Tail(t))

\* .replace(/\s{2,}/g, " ")
RECURSIVE collapseSpace(_)
collapseSpace(t) ==
    IF t = <<>> THEN <<>>
    ELSE LET n == spaceRun(t)
         IN IF n >= 2 THEN <<" ">> \o collapseSpace(SubSeq(t, n + 1, Len(t)))
            ELSE <<t[1]>> \o collapseSpace(Tail(t))

audiobookPolish(t) == trim(collapseSpace(collapseMarks(t)))

cleanTextForAudio(text) ==
    LET t0 == normalizeLineEnds(text)
        lines0 == mapTrim(splitLines(t0, <<>>))
        lines1 == SelectSeq(lines0, KeepAudioLine)
        lines2 == stripLikelyHeaderFooterLines(lines1)
        t1 == joinLines(lines2)
        t2 == dehyphenate(t1)
        t3 == joinWrappedLines(collapseBlankLines(t2))
        t4 == bulletsToDashes(t3)
        t5 == itemize(t4, TRUE)
        t6 == trim(collapseBlanks(t5))
    IN audiobookPolish(t6)

\* The texts given to the normalizer: up to MaxPieces pieces, each one
\* character or a whole line long enough to count as a running header.
MaxPieces == 5

HeaderLine == [i \in 1..MinHeaderLength |-> "a"] \o <<"\n">>

TextPieces == {<<"a">>, <<"1">>, <<"-">>, <<" ">>, <<"\n">>, <<"\r">>, <<"!">>, <<Bullet>>, HeaderLine}

RECURSIVE TextsOf(_)
TextsOf(n) ==
    IF n = 0 THEN {<<>>}
    ELSE LET shorter == TextsOf(n - 1)
         IN shorter \cup {t \o p : t \in shorter, p \in TextPieces}

InitClean ==
    /\ DetectStart
    /\ ChunkIdle
    /\ SplitIdle
    /\ DocTypeIdle
    /\ RenderIdle
    /\ StoreIdle
    /\ ExtractIdle
    /\ PageStart
    /\ npc = "ready"
    /\ raw \in TextsOf(MaxPieces)
    /\ cleaned = <<>>
    /\ recleaned = <<>>

\* finalText = cleanTextForAudio(rawText)
CleanOnce ==
    /\ npc = "ready"
    /\ cleaned' = cleanTextForAudio(raw)
    /\ npc' = "once"
    /\ UNCHANGED <<detectVars, chunkVars, splitVars, docTypeVars, renderVars, storeVars, extractVars, pageVars, raw, recleaned>>

\* the normalizer applied to its own output
CleanAgain ==
    /\ npc = "once"
    /\ recleaned' = cleanTextForAudio(cleaned)
    /\ npc' = "twice"
    /\ UNCHANGED <<detectVars, chunkVars, splitVars, docTypeVars, renderVars, storeVars, extractVars, pageVars, raw, cleaned>>

NextClean == CleanOnce \/ CleanAgain

SpecClean == InitClean /\ [][NextClean]_vars

\* C20: normalization is idempotent: for every input text x,
\* cleanTextForAudio(cleanTextForAudio(x)) = cleanTextForAudio(x).
C20_Idempotent == npc = "twice" => recleaned = cleaned

-----------------------------------------------------------------------------
\* extractPagesFromPdfBuffer (lib/extract-pages.ts).  The parser's result is a
\* sequence of raw pages; a raw page's `num` is a number, is missing, or is
\* a string that is no number.

NumberValue(n) == [kind |-> "number", n |-> n]

MissingValue == [kind |-> "undefined", n |-> 0]

TextValue == [kind |-> "string", n |-> 0]

\* Number(p?.num || 0): [nan |-> the result is NaN, n |-> the number otherwise]
ToPageNumber(num) ==
    IF num.kind = "number" THEN [nan |-> FALSE, n |-> num.n]
    ELSE IF num.kind = "undefined" THEN [nan |-> FALSE, n |-> 0]
    ELSE [nan |-> TRUE, n |-> 0]

\* Number.isFinite(p.pageNumber) && p.pageNumber > 0
IsValidPage(p) == ~p.pageNumber.nan /\ p.pageNumber.n > 0

\* .replace(/\s+/g, " ")
RECURSIVE squeezeSpace(_)
squeezeSpace(t) ==
    IF t = <<>> THEN <<>>
    ELSE LET n == spaceRun(t)
         IN IF n >= 1 THEN <<" ">> \o squeezeSpace(SubSeq(t, n + 1, Len(t)))
            ELSE <<t[1]>> \o squeezeSpace(Tail(t))

MapRawPage(p) == [pageNumber |-> ToPageNumber(p.num), text |-> trim(squeezeSpace(p.text))]

extractWithPdfParse(resultPages) ==
    LET mapped == [i \in 1..Len(resultPages) |-> MapRawPage(resultPages[i])]
        kept == SelectSeq(mapped, IsValidPage)
        pages == [i \in 1..Len(kept) |-> [pageNumber |-> kept[i].pageNumber.n, text |-> kept[i].text]]
    IN [numPages |-> Len(pages), pages |-> pages]

\* The parser numbers the pages it returns by position; a page may come
\* without a usable number.
MaxRawPages == 3

RawTexts == {<<>>, <<"a">>, <<" ", "a", "\n", "\n", "a", " ">>}

RawNums(i) == {NumberValue(i), NumberValue(0), MissingValue, TextValue}

RawResults ==
    UNION {{r \in [1..n -> [num : {NumberValue(k) : k \in 0..n} \cup {MissingValue, TextValue},
                            text : RawTexts]] :
               \A i \in 1..n : r[i].num \in RawNums(i)} : n \in 0..MaxRawPages}

InitExtract ==
    /\ DetectStart
    /\ ChunkIdle
    /\ SplitIdle
    /\ DocTypeIdle
    /\ RenderIdle
    /\ StoreIdle
    /\ CleanIdle
    /\ PageStart
    /\ epc = "ready"
    /\ rawPages \in RawResults
    /\ extracted = [numPages |-> 0, pages |-> <<>>]

ExtractPagesFromPdfBuffer ==
    /\ epc = "ready"
    /\ extracted' = extractWithPdfParse(rawPages)
    /\ epc' = "done"
    /\ UNCHANGED <<detectVars, chunkVars, splitVars, docTypeVars, renderVars, storeVars, cleanVars, pageVars, rawPages>>

NextExtract == ExtractPagesFromPdfBuffer

SpecExtract == InitExtract /\ [][NextExtract]_vars

\* C21: the page numbers of the extraction result are unique and are exactly
\* 1..numPages, also when raw pages were excluded as invalid.
C21_PageNumbers ==
    epc = "done" =>
        /\ \A i, j \in DOMAIN extracted.pages :
              extracted.pages[i].pageNumber = extracted.pages[j].pageNumber => i = j
        /\ {extracted.pages[i].pageNumber : i \in DOMAIN extracted.pages} = 1..extracted.numPages

-----------------------------------------------------------------------------
\* C22: every failed request is reported with the name of the stage that
\* failed, so that failures of reading or extracting the page source, of
\* segmentation and of synthesis carry different stage names.  A render that
\* ends with status 500 must carry a stage name in its response.
C22_FailureNamesStage ==
    (rpc = "failed" /\ response = 500) => errorBody.step # Absent

-----------------------------------------------------------------------------
\* Properties of the TOC offset (chapters/route.ts: inferTocOffset and the
\* projection of the TOC entries in detectChapters).

TocProjected == pc \notin {"start", "headings", "toc"} /\ toc # NoToc

TocDeltas == DeltaList(1, 1, toc.entries, headingCandidates)

TocOffset == inferTocOffset(toc.entries, headingCandidates)

\* the entries whose page, moved by the offset, lies in 1..numPages
KeptEntries(offset) ==
    SelectSeq(toc.entries, LAMBDA e : e.page + offset >= 1 /\ e.page + offset <= doc.numPages)

\* C23: inferTocOffset returns 0 when no TOC title correlates with a heading
\* candidate title, and otherwise a recorded delta (candidate page - entry page)
\* whose vote count is maximal; the one offset is applied to every TOC entry and
\* every TOC start that is kept lies in 1..numPages.
C23_TocOffset ==
    TocProjected =>
        LET deltas == TocDeltas
            offset == TocOffset
            kept == KeptEntries(offset)
        IN  /\ deltas = <<>> => offset = 0
            /\ deltas # <<>> =>
                  /\ \E k \in DOMAIN deltas : deltas[k] = offset
                  /\ \A k \in DOMAIN deltas : Votes(deltas[k], deltas) <= Votes(offset, deltas)
            /\ \A i \in DOMAIN tocStarts : tocStarts[i].page \in 1..doc.numPages
            /\ Len(tocStarts) = Len(kept)
            /\ \A i \in DOMAIN tocStarts :
                  /\ tocStarts[i].page = kept[i].page + offset
                  /\ tocStarts[i].title = kept[i].title

\* two deltas were recorded with different vote counts, the offset is not 0 and
\* an entry was discarded as out of range
C23_Witness ==
    /\ TocProjected
    /\ \E k, m \in DOMAIN TocDeltas : Votes(TocDeltas[k], TocDeltas) < Votes(TocDeltas[m], TocDeltas)
    /\ TocOffset # 0
    /\ Len(tocStarts) < Len(toc.entries)

-----------------------------------------------------------------------------
\* Properties of heading detection (chapters/route.ts: detectChapters, the
\* detect-headings step).

HeadingsDetected == pc \notin {"start", "headings"}

CommonLines == buildCommonLineSet(doc.pages)

SpanScores(page, common) ==
    LET spans == PageSpans(page, common)
    IN  {SpanScore(spans[i], page, common) : i \in DOMAIN spans}

CandidatesOf(page) ==
    {i \in DOMAIN headingCandidates : headingCandidates[i].page = page.pageNumber}

\* C24: after heading detection there is at most one HeadingCandidate per page,
\* each has score >= 60 and its score is the maximum over the spans of its page;
\* a page whose best span scores below 60 contributes no candidate, and a page
\* whose best span reaches 60 contributes one.
C24_BestSpanPerPage ==
    HeadingsDetected =>
        LET common == CommonLines
        IN  \A k \in DOMAIN doc.pages :
                LET page == doc.pages[k]
                    scores == SpanScores(page, common)
                    found == CandidatesOf(page)
                IN  /\ Cardinality(found) <= 1
                    /\ \A i \in found :
                          /\ headingCandidates[i].score >= 60
                          /\ headingCandidates[i].score \in scores
                          /\ \A sc \in scores : sc <= headingCandidates[i].score
                    /\ (\A sc \in scores : sc < 60) => found = {}
                    /\ (\E sc \in scores : sc >= 60) => found # {}

\* one page gave a candidate although its first span is not its best one, and
\* another page with spans gave none
C24_Witness ==
    /\ HeadingsDetected
    /\ LET common == CommonLines
       IN  /\ \E k \in DOMAIN doc.pages :
                 LET page == doc.pages[k]
                     spans == PageSpans(page, common)
                 IN  /\ CandidatesOf(page) # {}
                     /\ \E sc \in SpanScores(page, common) :
                           SpanScore(spans[1], page, common) < sc
           /\ \E k \in DOMAIN doc.pages :
                 /\ SpanScores(doc.pages[k], common) # {}
                 /\ CandidatesOf(doc.pages[k]) = {}

\* the texts a span may have: a line among the first 12 kept ones, or two
\* adjacent ones of them joined
AllowedSpanTexts(page, common) ==
    LET kept == KeptLines(page, common)
    IN  {kept[i] : i \in DOMAIN kept}
           \cup {kept[i] \o kept[i + 1] : i \in 1..(Len(kept) - 1)}

\* C25: every heading candidate span of a page (a single line or two adjacent
\* lines joined) is built only from the first 12 lines that remain after
\* boilerplate removal: no span contains a line that suppression removed.
C25_SpansFromKeptLines ==
    HeadingsDetected =>
        LET common == CommonLines
        IN  \A k \in DOMAIN doc.pages :
                LET spans == PageSpans(doc.pages[k], common)
                    allowed == AllowedSpanTexts(doc.pages[k], common)
                IN  \A i \in DOMAIN spans : spans[i].text \in allowed

\* the pages on which a layout line normalizes to n
PagesWithLine(n) ==
    {k \in DOMAIN doc.pages :
        \E i \in DOMAIN LayoutTexts(doc.pages[k]) : normalizeLine(LayoutTexts(doc.pages[k])[i]) = n}

\* C26: buildCommonLineSet marks a normalized line as common only if it occurs
\* on at least max(3, 25% of the page count) distinct pages; repeated
\* occurrences on one page do not count more than once.
C26_CommonOnDistinctPages ==
    HeadingsDetected =>
        \A n \in CommonLines : Cardinality(PagesWithLine(n)) >= Max(3, Len(doc.pages) \div 4)

-----------------------------------------------------------------------------
\* Properties of the slides score (lib/doc-type.ts: inferDocType).

\* the words of the first 5 pages, and the sample's lines
HeadWords == SumSeq([i \in 1..Len(headPages(dtPages)) |-> Len(Flatten(headPages(dtPages)[i].text))])

HeadCount == Len(headPages(dtPages))

SampleLines == sampleLines(dtPages, dtTocPage)

ShortLines == {i \in DOMAIN SampleLines : Len(SampleLines[i]) <= 6}

BulletLines == {i \in DOMAIN SampleLines : SampleLines[i][1] = "-"}

\* the parts of the score that come from the line shapes
ShapePoints ==
    (IF SampleLines # <<>> /\ Cardinality(ShortLines) * 100 > 45 * Len(SampleLines) THEN 2 ELSE 0)
        + (IF Cardinality(BulletLines) >= 8 THEN 2 ELSE 0)

\* C27 as claimed: the slides score is 3 if the average words-per-page of the
\* first 5 pages is < 90 (else 0), plus 2 if the short-line ratio is > 0.45,
\* plus 2 if the bullet-line count is >= 8, also when the first pages contain
\* no words at all (the average is then 0).
C27_SlidesScoreUnder90 ==
    dpc = "done" =>
        docTypeInfo.scores.slides = (IF HeadWords < 90 * HeadCount \/ HeadWords = 0 THEN 3 ELSE 0) + ShapePoints

\* C27 amended: the 3 points are given when the average words-per-page of the
\* first 5 pages is above 0 and below 90; pages without any word get none.
C27_SlidesScoreAboveZero ==
    dpc = "done" =>
        docTypeInfo.scores.slides = (IF HeadWords > 0 /\ HeadWords < 90 * HeadCount THEN 3 ELSE 0) + ShapePoints

\* a call whose first pages hold no word was scored, without the 3 points
C27_Witness ==
    /\ dpc = "done"
    /\ HeadCount > 0
    /\ HeadWords = 0
    /\ docTypeInfo.scores.slides = 0

-----------------------------------------------------------------------------
\* Properties of the newlines of cleanTextForAudio's output.

\* the lengths of the maximal runs of newlines in t
NewlineRuns(t) ==
    {newlineRun(SubSeq(t, i, Len(t))) :
        i \in {k \in DOMAIN t : t[k] = "\n" /\ (k = 1 \/ t[k - 1] # "\n")}}

RawLines == mapTrim(splitLines(normalizeLineEnds(raw), <<>>))

\* two non-empty lines of the input with only blank lines, and at least one,
\* between them
HasBlankLineRun ==
    \E i, j \in DOMAIN RawLines :
        /\ i + 1 < j
        /\ RawLines[i] # <<>> /\ RawLines[j] # <<>>
        /\ \A k \in (i + 1)..(j - 1) : RawLines[k] = <<>>

\* C28: cleanTextForAudio turns every run of blank lines between two non-empty
\* lines of its input into exactly one paragraph break of two newlines, and
\* every remaining single newline into a space, so its output contains no
\* newline run of a length other than 2.
C28_ParagraphBreaks ==
    npc = "once" =>
        /\ NewlineRuns(cleaned) \subseteq {2}
        /\ (HasBlankLineRun /\ \A i \in DOMAIN RawLines : RawLines[i] # <<>> => KeepAudioLine(RawLines[i]))
              => 2 \in NewlineRuns(cleaned)

-----------------------------------------------------------------------------
\* The client page component: uploadPdf, detectChaptersForUrl,
\* generateOneChapter and generateAllChapters.  A handler runs from an event
\* (a click, or the response of the request it awaits) to its next await.  A
\* document is the number of the upload that brought it; a download URL names
\* the document and the chapter of the render request that returned it.

MaxUploads == 2

MaxRenders == 3

nonPageVars ==
    <<detectVars, chunkVars, splitVars, docTypeVars, renderVars, storeVars, cleanVars, extractVars>>

InitPage ==
    /\ DetectStart
    /\ ChunkIdle
    /\ SplitIdle
    /\ DocTypeIdle
    /\ RenderIdle
    /\ StoreIdle
    /\ CleanIdle
    /\ ExtractIdle
    /\ PageStart

readyForGeneration == pdfUrl # 0 /\ loadedChapters # 0 /\ ~isUploading /\ ~isDetecting

canGenerateAll == readyForGeneration /\ ~generatingAll

\* resetGenerationState()
resetGenerationState ==
    /\ generatingAll' = FALSE
    /\ generatingByChapter' = [c \in ChapterIndices |-> FALSE]
    /\ chapterDownloads' = [c \in ChapterIndices |-> NoUrl]
    /\ chapterStatus' = [c \in ChapterIndices |-> "unset"]

RemoveAt(s, i) == SubSeq(s, 1, i - 1) \o SubSeq(s, i + 1, Len(s))

\* uploadPdf up to the upload request
UploadPdf ==
    /\ ~isUploading /\ ~isDetecting
    /\ uploads < MaxUploads
    /\ isUploading' = TRUE
    /\ pdfUrl' = 0
    /\ loadedChapters' = 0
    /\ resetGenerationState
    /\ uploads' = uploads + 1
    /\ loading' = [stage |-> "upload", doc |-> uploads + 1]
    /\ UNCHANGED <<isDetecting, allRuns, inflight, renders, nonPageVars>>

\* the upload request returns: on success detectChaptersForUrl runs up to its
\* request, on failure uploadPdf ends
UploadResponds ==
    /\ loading.stage = "upload"
    /\ \/ /\ pdfUrl' = loading.doc
          /\ isDetecting' = TRUE
          /\ loadedChapters' = 0
          /\ resetGenerationState
          /\ loading' = [stage |-> "detect", doc |-> loading.doc]
          /\ UNCHANGED isUploading
       \/ /\ isUploading' = FALSE
          /\ loading' = NoLoading
          /\ UNCHANGED <<isDetecting, pdfUrl, loadedChapters, chapterDownloads, chapterStatus,
                         generatingByChapter, generatingAll>>
    /\ UNCHANGED <<allRuns, inflight, uploads, renders, nonPageVars>>

\* the detection request returns; detectChaptersForUrl and uploadPdf end
DetectResponds ==
    /\ loading.stage = "detect"
    /\ \/ /\ loadedChapters' = loading.doc
          /\ chapterStatus' = [c \in ChapterIndices |-> "ready"]
       \/ UNCHANGED <<loadedChapters, chapterStatus>>
    /\ isDetecting' = FALSE
    /\ isUploading' = FALSE
    /\ loading' = NoLoading
    /\ UNCHANGED <<pdfUrl, chapterDownloads, generatingByChapter, generatingAll, allRuns, inflight,
                   uploads, renders, nonPageVars>>

Url(d, c) == [doc |-> d, chapter |-> c]

Request(by, run, c, d) == [by |-> by, run |-> run, chapter |-> c, doc |-> d]

\* generateOneChapter(ch) up to the render request
GenerateOneChapter(c) ==
    /\ pdfUrl # 0 /\ readyForGeneration /\ ~generatingAll /\ ~generatingByChapter[c]
    /\ renders < MaxRenders
    /\ chapterStatus' = [chapterStatus EXCEPT ![c] = "generating"]
    /\ generatingByChapter' = [generatingByChapter EXCEPT ![c] = TRUE]
    /\ inflight' = Append(inflight, Request("one", 0, c, pdfUrl))
    /\ renders' = renders + 1
    /\ UNCHANGED <<isUploading, isDetecting, pdfUrl, loadedChapters, chapterDownloads, generatingAll,
                   allRuns, loading, uploads, nonPageVars>>

\* the render request of generateOneChapter returns, with a download URL or with
\* an error; the finally block clears the chapter's flag
GenerateOneResponds(i) ==
    /\ inflight[i].by = "one"
    /\ LET req == inflight[i]
       IN  \/ /\ chapterDownloads' = [chapterDownloads EXCEPT ![req.chapter] = Url(req.doc, req.chapter)]
              /\ chapterStatus' = [chapterStatus EXCEPT ![req.chapter] = "done"]
           \/ /\ chapterStatus' = [chapterStatus EXCEPT ![req.chapter] = "error"]
              /\ UNCHANGED chapterDownloads
    /\ generatingByChapter' = [generatingByChapter EXCEPT ![inflight[i].chapter] = FALSE]
    /\ inflight' = RemoveAt(inflight, i)
    /\ UNCHANGED <<isUploading, isDetecting, pdfUrl, loadedChapters, generatingAll, allRuns, loading,
                   uploads, renders, nonPageVars>>

\* the chapters a generateAllChapters call still has to render after chapter c:
\* those its captured chapterDownloads does not hold
Remaining(skip, c) == {d \in ChapterIndices : d > c /\ d \notin skip}

First(S) == CHOOSE d \in S : \A e \in S : d <= e

\* generateAllChapters up to its first render request, or to its end when the
\* captured chapterDownloads holds every chapter
GenerateAllChapters ==
    /\ pdfUrl # 0 /\ loadedChapters # 0 /\ readyForGeneration /\ ~generatingAll
    /\ LET skip == {c \in ChapterIndices : chapterDownloads[c] # NoUrl}
           reset == [c \in ChapterIndices |-> IF c \in skip THEN "done" ELSE "ready"]
           todo == Remaining(skip, 0)
       IN  IF todo = {}
           THEN /\ chapterStatus' = reset
                /\ generatingAll' = FALSE
                /\ generatingByChapter' = [c \in ChapterIndices |-> FALSE]
                /\ UNCHANGED <<allRuns, inflight, renders>>
           ELSE /\ renders < MaxRenders
                /\ chapterStatus' = [reset EXCEPT ![First(todo)] = "generating"]
                /\ generatingAll' = TRUE
                /\ generatingByChapter' = [generatingByChapter EXCEPT ![First(todo)] = TRUE]
                /\ allRuns' = allRuns \cup {[id |-> renders + 1, doc |-> pdfUrl, skip |-> skip]}
                /\ inflight' = Append(inflight, Request("all", renders + 1, First(todo), pdfUrl))
                /\ renders' = renders + 1
    /\ UNCHANGED <<isUploading, isDetecting, pdfUrl, loadedChapters, chapterDownloads, loading,
                   uploads, nonPageVars>>

\* the finally block of generateAllChapters
EndGenerateAll(run) ==
    /\ generatingAll' = FALSE
    /\ generatingByChapter' = [c \in ChapterIndices |-> FALSE]
    /\ allRuns' = allRuns \ {run}

\* a render request of generateAllChapters returns: with a download URL the loop
\* goes on to the next chapter, with an error the call ends
GenerateAllResponds(i) ==
    /\ inflight[i].by = "all"
    /\ LET req == inflight[i]
           run == CHOOSE r \in allRuns : r.id = req.run
           todo == Remaining(run.skip, req.chapter)
       IN  \/ /\ chapterDownloads' = [chapterDownloads EXCEPT ![req.chapter] = Url(req.doc, req.chapter)]
              /\ IF todo = {}
                 THEN /\ chapterStatus' = [chapterStatus EXCEPT ![req.chapter] = "done"]
                      /\ EndGenerateAll(run)
                      /\ inflight' = RemoveAt(inflight, i)
                      /\ UNCHANGED renders
                 ELSE /\ renders < MaxRenders
                      /\ chapterStatus' = [chapterStatus EXCEPT ![req.chapter] = "done",
                                                                ![First(todo)] = "generating"]
                      /\ generatingByChapter' = [generatingByChapter EXCEPT ![First(todo)] = TRUE]
                      /\ inflight' = Append(RemoveAt(inflight, i),
                                            Request("all", run.id, First(todo), run.doc))
                      /\ renders' = renders + 1
                      /\ UNCHANGED <<generatingAll, allRuns>>
           \/ /\ chapterStatus' = [chapterStatus EXCEPT ![req.chapter] = "error"]
              /\ EndGenerateAll(run)
              /\ inflight' = RemoveAt(inflight, i)
              /\ UNCHANGED <<chapterDownloads, renders>>
    /\ UNCHANGED <<isUploading, isDetecting, pdfUrl, loadedChapters, loading, uploads, nonPageVars>>

NextPage ==
    \/ UploadPdf
    \/ UploadResponds
    \/ DetectResponds
    \/ \E c \in ChapterIndices : GenerateOneChapter(c)
    \/ \E i \in DOMAIN inflight : GenerateOneResponds(i)
    \/ GenerateAllChapters
    \/ \E i \in DOMAIN inflight : GenerateAllResponds(i)

SpecPage == InitPage /\ [][NextPage]_vars

\* the render requests in flight for chapter index c
InFlightFor(c) == {i \in DOMAIN inflight : inflight[i].chapter = c}

\* C29: every download URL and every "done" status recorded for a chapter index
\* was produced by a render request issued for the currently loaded document,
\* also when a new PDF is uploaded while a render request or a generate-all run
\* is in flight.
C29_ResultsOfLoadedDocument ==
    \A c \in ChapterIndices :
        /\ chapterDownloads[c] # NoUrl => chapterDownloads[c].doc = pdfUrl
        /\ chapterStatus[c] = "done" =>
              (chapterDownloads[c] # NoUrl /\ chapterDownloads[c].doc = pdfUrl)

\* C30: at most one render request per chapter index is in flight at any time,
\* and a chapter's generating flag is true exactly while its request is in
\* flight, for every interleaving of clicks on a chapter's Generate button and
\* on "Generate all MP3s" (one document, uploaded once).
C30_OneRequestPerChapter ==
    uploads <= 1 =>
        \A c \in ChapterIndices :
            /\ Cardinality(InFlightFor(c)) <= 1
            /\ generatingByChapter[c] <=> InFlightFor(c) # {}

=============================================================================
